---- MODULE Spec2Model ----
(***************************************************************************)
(* Model of the template-filling pipeline of the dashboard backend:        *)
(*   - JsonSchema.derive and update_json.safe_merge                        *)
(*     (sandbox_builders/entertainment_builder.py),                        *)
(*   - fill_data_with_mcp_tools (same file),                               *)
(*   - the orchestration graph domain_logic -> render -> codesandbox_check *)
(*     (langraph/graph.py, started by langraph/api_endpoint.py).           *)
(*                                                                         *)
(* JSON values are tagged records: k is the Python type of the node, the   *)
(* other field its payload.  A str is a sequence of one-character strings, *)
(* so that strip() and lower() are computed and not assumed.               *)
(***************************************************************************)
EXTENDS Integers, Sequences, FiniteSets, TLC

VARIABLES
    template_obj,    \* safe_merge: the template handed to the merge
    candidate_obj,   \* safe_merge: the candidate handed to the merge
    merged,          \* safe_merge: the value returned, NoResult before the call
    template_data,   \* fill_data_with_mcp_tools: the template handed to the fill
    domain,          \* fill_data_with_mcp_tools: the domain handed to the fill
    tools,           \* fill_data_with_mcp_tools: what the search tools did
    llm,             \* fill_data_with_mcp_tools: what the LLM refinement did
    filled,          \* fill_data_with_mcp_tools: the document returned, NoResult before the call
    state,           \* graph: the AgentState handed from node to node
    pc,              \* graph: the node to run next, "END" when the graph has ended
    steps,           \* graph: the nodes run so far (the supersteps counted against recursion_limit)
    verdicts,        \* graph: the outcome of each run of codesandbox_check_node, in order
    response,        \* generate_dashboard: the response returned, NoResult before the return
    origin,          \* graph: the attempt that last wrote the template data and the files, 0 for none
    tools_dir,       \* agent: the modules found in mcp_tools, in file-name order
    whitelist,       \* agent: the keys of the ToolWhitelist
    agent,           \* agent: the JsonFillingAgent built by update_json, NoResult before
    tool_result,     \* agent: what the last call of a tool wrapper returned, NoResult before
    update_call,     \* agent: the last call of update_json and what it returned, NoResult before
    page_context,    \* prompts: the page context handed to the fill, NoResult for None
    field_context,   \* prompts: the field context handed to the fill, NoResult for None
    sanitized,       \* prompts: what PromptSanitizer.sanitize returned for the page context
    llm_prompt,          \* prompts: the prompt last sent to the LLM, NoResult before
    search_agent,    \* filler: whether the DeterministicFiller has a search agent
    search_cache,    \* filler: the instance's _search_cache, a set of key/value entries
    searches,        \* filler: the calls of web_search made so far, in order
    fill_call,       \* filler: the last call of fill and what it returned, NoResult before
    registry,        \* selection: the template registry the TemplateLoader loaded
    request,         \* selection: the arguments of select_template
    selection,       \* selection: what select_template computed and returned, NoResult before
    schema_tree,     \* schema: the JSON tree a schema is derived from
    schema,          \* schema: what JsonSchema.derive returned for the tree, NoResult before
    violations       \* schema: what JsonSchema.validate returned for the tree, NoResult before

mergeVars == <<template_obj, candidate_obj, merged>>
fillVars == <<template_data, domain, tools, llm, filled>>
graphVars == <<state, pc, steps, verdicts, response, origin>>
agentVars == <<tools_dir, whitelist, agent, tool_result, update_call>>
promptVars == <<page_context, field_context, sanitized, llm_prompt>>
fillerVars == <<search_agent, search_cache, searches, fill_call>>
selectVars == <<registry, request, selection>>
schemaVars == <<schema_tree, schema, violations>>
vars == <<mergeVars, fillVars, graphVars, agentVars, promptVars, fillerVars, selectVars, schemaVars>>

\* The variables a part of the pipeline leaves alone.
notMergeVars == <<fillVars, graphVars, agentVars, promptVars, fillerVars, selectVars, schemaVars>>
notFillVars == <<mergeVars, graphVars, agentVars, promptVars, fillerVars, selectVars, schemaVars>>
notGraphVars == <<mergeVars, fillVars, agentVars, promptVars, fillerVars, selectVars, schemaVars>>
notAgentVars == <<mergeVars, fillVars, graphVars, promptVars, fillerVars, selectVars, schemaVars>>
notPromptVars == <<mergeVars, fillVars, graphVars, agentVars, fillerVars, selectVars, schemaVars>>
notFillerVars == <<mergeVars, fillVars, graphVars, agentVars, promptVars, selectVars, schemaVars>>
notSelectVars == <<mergeVars, fillVars, graphVars, agentVars, promptVars, fillerVars, schemaVars>>
notSchemaVars == <<mergeVars, fillVars, graphVars, agentVars, promptVars, fillerVars, selectVars>>

(***************************************************************************)
(* Bounds of the model.                                                    *)
(***************************************************************************)
MaxLen == 2          \* longest array drawn for a template or a candidate

(***************************************************************************)
(* JSON values.                                                            *)
(***************************************************************************)
Null == [k |-> "null"]
Num(n) == [k |-> "number", num |-> n]
Bool(b) == [k |-> "boolean", bool |-> b]
Str(s) == [k |-> "string", str |-> s]
List(s) == [k |-> "list", list |-> s]
Dict(f) == [k |-> "dict", dict |-> f]
NoResult == [k |-> "none"]

IsNull(x) == x.k = "null"
IsNum(x) == x.k = "number"
IsBool(x) == x.k = "boolean"
IsStr(x) == x.k = "string"
IsList(x) == x.k = "list"
IsDict(x) == x.k = "dict"

\* A dict keeps its keys in insertion order: the payload is a sequence of [key, val] pairs.
Pair(key, val) == [key |-> key, val |-> val]
EmptyDict == Dict(<<>>)
Dict1(k1, v1) == Dict(<<Pair(k1, v1)>>)
Dict2(k1, v1, k2, v2) == Dict(<<Pair(k1, v1), Pair(k2, v2)>>)
Dict3(k1, v1, k2, v2, k3, v3) == Dict(<<Pair(k1, v1), Pair(k2, v2), Pair(k3, v3)>>)
Dict4(k1, v1, k2, v2, k3, v3, k4, v4) == Dict(<<Pair(k1, v1), Pair(k2, v2), Pair(k3, v3), Pair(k4, v4)>>)

Keys(d) == {d.dict[i].key : i \in 1..Len(d.dict)}
HasKey(d, key) == \E i \in 1..Len(d.dict) : d.dict[i].key = key
Get(d, key) == d.dict[CHOOSE i \in 1..Len(d.dict) : d.dict[i].key = key].val
GetOr(d, key, default) == IF HasKey(d, key) THEN Get(d, key) ELSE default

\* d[key] = val
Put(d, key, val) ==
    IF HasKey(d, key)
    THEN Dict([i \in 1..Len(d.dict) |-> IF d.dict[i].key = key THEN Pair(key, val) ELSE d.dict[i]])
    ELSE Dict(Append(d.dict, Pair(key, val)))

\* d.update(upd), upd a sequence of pairs
RECURSIVE Update(_, _)
Update(d, upd) == IF upd = <<>> THEN d ELSE Update(Put(d, Head(upd).key, Head(upd).val), Tail(upd))

\* bool(x) of a JSON value
Truthy(x) ==
    IF IsNull(x) THEN FALSE
    ELSE IF IsBool(x) THEN x.bool
    ELSE IF IsNum(x) THEN x.num # 0
    ELSE IF IsStr(x) THEN Len(x.str) > 0
    ELSE IF IsList(x) THEN Len(x.list) > 0
    ELSE Len(x.dict) > 0

(***************************************************************************)
(* Strings: str.strip() and str.lower() on character sequences.            *)
(***************************************************************************)
UpperCase == <<"A","B","C","D","E","F","G","H","I","J","K","L","M","N","O","P","Q","R","S","T","U","V","W","X","Y","Z">>
LowerCase == <<"a","b","c","d","e","f","g","h","i","j","k","l","m","n","o","p","q","r","s","t","u","v","w","x","y","z">>

IsSpace(c) == c \in {" ", "\t", "\n", "\r"}

LowerChar(c) == IF \E i \in 1..26 : UpperCase[i] = c THEN LowerCase[CHOOSE i \in 1..26 : UpperCase[i] = c] ELSE c

lower(s) == [i \in 1..Len(s) |-> LowerChar(s[i])]

RECURSIVE lstrip(_)
lstrip(s) == IF s # <<>> /\ IsSpace(Head(s)) THEN lstrip(Tail(s)) ELSE s

RECURSIVE rstrip(_)
rstrip(s) == IF s # <<>> /\ IsSpace(s[Len(s)]) THEN rstrip(SubSeq(s, 1, Len(s) - 1)) ELSE s

strip(s) == rstrip(lstrip(s))

\* The strings the model draws from.
S_empty == <<>>
S_blank == <<" ">>
S_tbd == <<"t","b","d">>
S_TBD == <<"T","B","D">>
S_TBD_padded == <<" ","T","b","d","\n">>
S_placeholder == <<"p","l","a","c","e","h","o","l","d","e","r">>
S_n_a == <<"n","/","a">>
S_N_A == <<"N","/","A">>
S_text == <<"t","e","x","t">>
S_title == <<"t","i","t","l","e">>
S_Title == <<"T","i","t","l","e">>
S_txt == <<"t","x","t">>
S_untitled == <<"u","n","t","i","t","l","e","d">>
S_FixedCopy == <<"F","i","x","e","d"," ","C","o","p","y">>
S_Hallucinated == <<"H","a","l","l","u","c","i","n","a","t","e","d">>
S_DailyNews == <<"D","a","i","l","y"," ","N","e","w","s">>
S_x == <<"x">>

(***************************************************************************)
(* JsonSchema.derive                                                       *)
(***************************************************************************)
DepthCap == 10

RECURSIVE build_schema(_, _)
build_schema(obj, depth) ==
    IF depth > DepthCap THEN [type |-> "object"]
    ELSE IF IsDict(obj) THEN
        [type |-> "object",
         properties |-> [key \in Keys(obj) |-> build_schema(Get(obj, key), depth + 1)],
         additionalProperties |-> FALSE]
    ELSE IF IsList(obj) THEN
        IF Len(obj.list) > 0
        THEN [type |-> "array", items |-> build_schema(obj.list[1], depth + 1)]
        ELSE [type |-> "array"]
    ELSE IF IsStr(obj) THEN [type |-> "string"]
    ELSE IF IsBool(obj) THEN [type |-> "boolean"]
    ELSE IF IsNum(obj) THEN [type |-> "number"]
    ELSE IF IsNull(obj) THEN [type |-> "null"]
    ELSE [type |-> "object"]

derive(template) == build_schema(template, 0)

(***************************************************************************)
(* update_json.safe_merge                                                  *)
(***************************************************************************)
RECURSIVE safe_merge(_, _)

\* dict/dict: the template's keys, each merged when the candidate has it.
merge_dict(template_dict, candidate_dict) ==
    Dict([i \in 1..Len(template_dict.dict) |->
            LET key == template_dict.dict[i].key
                template_value == template_dict.dict[i].val
            IN IF HasKey(candidate_dict, key)
               THEN Pair(key, safe_merge(template_value, Get(candidate_dict, key)))
               ELSE Pair(key, template_value)])

\* list/list, template non-empty: the loop over the candidate's elements.
RECURSIVE merge_items(_, _)
merge_items(proto, items) ==
    IF items = <<>> THEN <<>>
    ELSE LET candidate_item == Head(items)
             rest == merge_items(proto, Tail(items))
         IN IF IsDict(proto) /\ IsDict(candidate_item)
            THEN <<safe_merge(proto, candidate_item)>> \o rest
            ELSE IF ~IsDict(proto) /\ ~IsDict(candidate_item)
            THEN <<candidate_item>> \o rest
            ELSE rest

merge_nonempty_list(template_list, candidate_list) ==
    List(merge_items(template_list.list[1], candidate_list.list))

\* Mutant of merge_empty_list: the check for dict elements is missing.
merge_empty_list_accept_any(template_list, candidate_list) == candidate_list

\* list/list, template empty: only a list without dicts is accepted.
merge_empty_list(template_list, candidate_list) ==
    IF \A i \in 1..Len(candidate_list.list) : ~IsDict(candidate_list.list[i])
    THEN candidate_list
    ELSE template_list

\* Mutant of is_empty_or_placeholder: the template string is not stripped.
is_empty_or_placeholder_unstripped(s) ==
    \/ s = <<>>
    \/ lower(s) \in {S_tbd, S_placeholder, S_n_a, S_text, S_title}

is_empty_or_placeholder(s) ==
    \/ strip(s) = <<>>
    \/ lower(strip(s)) \in {S_tbd, S_placeholder, S_n_a, S_text, S_title}

\* str template: replaced only when it is empty or a placeholder.
merge_string(template_str, candidate) ==
    IF is_empty_or_placeholder(template_str.str)
    THEN (IF IsStr(candidate) THEN candidate ELSE template_str)
    ELSE template_str

\* None template: replaced by any candidate that is not None.
merge_none(template_none, candidate) ==
    IF ~IsNull(candidate) THEN candidate ELSE template_none

safe_merge(t, c) ==
    IF IsDict(t) /\ IsDict(c) THEN merge_dict(t, c)
    ELSE IF IsList(t) /\ IsList(c) THEN
        (IF Len(t.list) > 0 THEN merge_nonempty_list(t, c) ELSE merge_empty_list(t, c))
    ELSE IF IsStr(t) THEN merge_string(t, c)
    ELSE IF IsNull(t) THEN merge_none(t, c)
    ELSE t

(***************************************************************************)
(* The documents the merge is exercised on.                                *)
(***************************************************************************)
SeqsUpTo(S, n) == UNION {[1..m -> S] : m \in 0..n}

TemplateStrings == {S_empty, S_blank, S_tbd, S_TBD, S_TBD_padded, S_placeholder, S_n_a, S_N_A, S_text, S_title, S_Title, S_txt, S_untitled, S_FixedCopy}

TemplateLeaves == {Null, Num(1), Bool(TRUE)} \cup {Str(s) : s \in TemplateStrings}

TemplateItems == {Num(1), Str(S_FixedCopy), Str(S_TBD), Dict1("title", Str(S_TBD)), Dict1("title", Str(S_FixedCopy)), Dict1("title", Num(1))}

TemplateLists == {List(s) : s \in SeqsUpTo(TemplateItems, MaxLen)}

TemplateTitles == {Str(S_TBD), Str(S_FixedCopy), Null}

TemplateDicts == {Dict1("title", t) : t \in TemplateTitles} \cup {Dict2("title", t, "items", l) : t \in TemplateTitles, l \in TemplateLists}

Templates == TemplateLeaves \cup TemplateLists \cup TemplateDicts

CandidateLeaves == {Null, Num(2), Bool(FALSE), Str(S_x), Str(S_Hallucinated)}

CandidateItems == {Num(2), Str(S_x), Null, List(<<Str(S_x)>>), EmptyDict, Dict1("title", Str(S_x)), Dict2("title", Str(S_x), "extra", Str(S_x))}

CandidateLists == {List(s) : s \in SeqsUpTo(CandidateItems, MaxLen)}

CandidateTitles == {Str(S_DailyNews), Str(S_Hallucinated), Num(2)}

CandidateDicts == {EmptyDict} \cup {Dict1("title", t) : t \in CandidateTitles} \cup {Dict1("items", l) : l \in CandidateLists} \cup {Dict2("title", t, "items", l) : t \in CandidateTitles, l \in CandidateLists}

Candidates == CandidateLeaves \cup CandidateLists \cup CandidateDicts

\* The variables of a part of the pipeline that a run does not exercise.
MergeIdle == template_obj = NoResult /\ candidate_obj = NoResult /\ merged = NoResult
FillIdle == template_data = NoResult /\ domain = <<>> /\ tools = NoResult /\ llm = NoResult /\ filled = NoResult
GraphIdle ==
    /\ state = NoResult /\ pc = "idle" /\ steps = 0 /\ verdicts = <<>> /\ response = NoResult
    /\ origin = [data |-> 0, files |-> 0]
AgentIdle ==
    /\ tools_dir = <<>> /\ whitelist = {} /\ agent = NoResult /\ tool_result = NoResult
    /\ update_call = NoResult

PromptIdle == page_context = NoResult /\ field_context = NoResult /\ sanitized = NoResult /\ llm_prompt = NoResult
FillerIdle == search_agent = FALSE /\ search_cache = {} /\ searches = <<>> /\ fill_call = NoResult
SelectIdle == registry = NoResult /\ request = NoResult /\ selection = NoResult
SchemaIdle == schema_tree = NoResult /\ schema = NoResult /\ violations = NoResult

NotMergeIdle == FillIdle /\ GraphIdle /\ AgentIdle /\ PromptIdle /\ FillerIdle /\ SelectIdle /\ SchemaIdle
NotFillIdle == MergeIdle /\ GraphIdle /\ AgentIdle /\ PromptIdle /\ FillerIdle /\ SelectIdle /\ SchemaIdle
NotGraphIdle == MergeIdle /\ FillIdle /\ AgentIdle /\ PromptIdle /\ FillerIdle /\ SelectIdle /\ SchemaIdle
NotAgentIdle == MergeIdle /\ FillIdle /\ GraphIdle /\ PromptIdle /\ FillerIdle /\ SelectIdle /\ SchemaIdle
NotPromptIdle == MergeIdle /\ FillIdle /\ GraphIdle /\ AgentIdle /\ FillerIdle /\ SelectIdle /\ SchemaIdle
NotFillerIdle == MergeIdle /\ FillIdle /\ GraphIdle /\ AgentIdle /\ PromptIdle /\ SelectIdle /\ SchemaIdle
NotSelectIdle == MergeIdle /\ FillIdle /\ GraphIdle /\ AgentIdle /\ PromptIdle /\ FillerIdle /\ SchemaIdle
NotSchemaIdle == MergeIdle /\ FillIdle /\ GraphIdle /\ AgentIdle /\ PromptIdle /\ FillerIdle /\ SelectIdle

(***************************************************************************)
(* Harness of safe_merge: a template is drawn, then merged once, with a    *)
(* candidate or with itself.                                               *)
(***************************************************************************)
InitMerge ==
    /\ template_obj \in Templates
    /\ candidate_obj = NoResult
    /\ merged = NoResult
    /\ NotMergeIdle

Merge ==
    /\ merged = NoResult
    /\ \E c \in Candidates :
        /\ candidate_obj' = c
        /\ merged' = safe_merge(template_obj, c)
    /\ UNCHANGED <<template_obj, notMergeVars>>

MergeSelf ==
    /\ merged = NoResult
    /\ candidate_obj' = template_obj
    /\ merged' = safe_merge(template_obj, template_obj)
    /\ UNCHANGED <<template_obj, notMergeVars>>

NextMerge == Merge \/ MergeSelf

SpecMerge == InitMerge /\ [][NextMerge]_vars

(***************************************************************************)
(* Properties of safe_merge.                                               *)
(***************************************************************************)
\* The placeholder of the data model: null, or a string whose trimmed,
\* lowercased value is a sentinel.
SentinelSet == {S_empty, S_tbd, S_placeholder, S_n_a, S_text, S_title}

IsPlaceholder(x) == IsNull(x) \/ (IsStr(x) /\ lower(strip(x.str)) \in SentinelSet)

IsLeaf(x) == ~IsDict(x) /\ ~IsList(x)

RECURSIVE HasFixedLeaf(_)
HasFixedLeaf(t) ==
    IF IsDict(t) THEN \E key \in Keys(t) : HasFixedLeaf(Get(t, key))
    ELSE IF IsList(t) THEN \E i \in 1..Len(t.list) : HasFixedLeaf(t.list[i])
    ELSE ~IsPlaceholder(t)

\* Every non-placeholder leaf of t is found in m, at the same path, with the same value.
RECURSIVE LeavesKept(_, _)
LeavesKept(t, m) ==
    IF IsDict(t) THEN
        \A key \in Keys(t) : HasFixedLeaf(Get(t, key)) =>
            (IsDict(m) /\ HasKey(m, key) /\ LeavesKept(Get(t, key), Get(m, key)))
    ELSE IF IsList(t) THEN
        \A i \in 1..Len(t.list) : HasFixedLeaf(t.list[i]) =>
            (IsList(m) /\ i <= Len(m.list) /\ LeavesKept(t.list[i], m.list[i]))
    ELSE IsPlaceholder(t) \/ m = t

Merged == merged # NoResult

\* C2: the shape derived from safe_merge(T, C) equals the shape derived from T.
C2_ShapePreserved == Merged => derive(merged) = derive(template_obj)

\* C3: merging a template with itself returns the template.
C3_SelfMergeIsIdentity == (Merged /\ candidate_obj = template_obj) => merged = template_obj

\* C4: every non-placeholder leaf of T has the same value at the same path in safe_merge(T, C).
C4_FixedLeavesKept == Merged => LeavesKept(template_obj, merged)

\* C5: a non-empty template array merged with a candidate array has one element per
\* candidate element, in order, each the merge of the prototype with that element.
C5_OnePerCandidateElement ==
    (Merged /\ IsList(template_obj) /\ IsList(candidate_obj) /\ Len(template_obj.list) > 0) =>
        /\ IsList(merged)
        /\ Len(merged.list) = Len(candidate_obj.list)
        /\ \A i \in 1..Len(candidate_obj.list) :
              merged.list[i] = safe_merge(template_obj.list[1], candidate_obj.list[i])

ScenarioA_Template == Dict2("title", Str(S_TBD), "items", List(<<>>))
ScenarioA_Candidate == Dict2("title", Str(S_DailyNews), "items", List(<<Str(S_x)>>))
ScenarioA_Merged == Dict2("title", Str(S_DailyNews), "items", List(<<Str(S_x)>>))

ScenarioB_Template == Dict1("title", Str(S_FixedCopy))
ScenarioB_Candidate == Dict1("title", Str(S_Hallucinated))

HasObjectElement(l) == \E i \in 1..Len(l.list) : IsDict(l.list[i])

HasItems(x) == IsDict(x) /\ HasKey(x, "items")

\* C6: an empty template array merged with a candidate array gives the candidate array
\* when none of its elements is an object and the empty template array otherwise, at
\* the root and under a key; Scenario A gives {"title":"Daily News","items":["x"]}.
C6_EmptyTemplateArray ==
    Merged =>
        /\ (template_obj = List(<<>>) /\ IsList(candidate_obj)) =>
              merged = (IF HasObjectElement(candidate_obj) THEN List(<<>>) ELSE candidate_obj)
        /\ (HasItems(template_obj) /\ HasItems(candidate_obj)
              /\ Get(template_obj, "items") = List(<<>>) /\ IsList(Get(candidate_obj, "items"))) =>
              Get(merged, "items") = (IF HasObjectElement(Get(candidate_obj, "items"))
                                   THEN List(<<>>) ELSE Get(candidate_obj, "items"))
        /\ (template_obj = ScenarioA_Template /\ candidate_obj = ScenarioA_Candidate) =>
              merged = ScenarioA_Merged

C6_Witness ==
    /\ template_obj = ScenarioA_Template
    /\ candidate_obj = ScenarioA_Candidate
    /\ merged = ScenarioA_Merged

\* C7: a string template is replaced by the candidate only when its trimmed, lowercased
\* value is a sentinel and the candidate is a string, and is returned verbatim otherwise;
\* Scenario B keeps {"title":"Fixed Copy"}.
C7_StringTemplate ==
    Merged =>
        /\ IsStr(template_obj) =>
              merged = (IF lower(strip(template_obj.str)) \in SentinelSet /\ IsStr(candidate_obj)
                        THEN candidate_obj ELSE template_obj)
        /\ (template_obj = ScenarioB_Template /\ candidate_obj = ScenarioB_Candidate) =>
              merged = ScenarioB_Template

C7_Witness ==
    /\ template_obj = Str(S_TBD_padded)
    /\ candidate_obj = Str(S_x)
    /\ merged = Str(S_x)

(***************************************************************************)
(* fill_data_with_mcp_tools                                                *)
(*                                                                         *)
(* The fill is modelled for the domains it reaches from the graph with the *)
(* "generic" direct fill and for a domain that has no direct fill (the     *)
(* fallback branch).  The query and mcp_data only feed the calls to the    *)
(* tools and to the LLM, whose outcomes are drawn.                         *)
(***************************************************************************)
MaxResults == 2      \* most results a search returns in the model

S_Summary == <<"S","u","m","m","a","r","y">>
S_SUMMARY == <<"S","U","M","M","A","R","Y">>
S_link_icon == <<"#">>      \* the one-character string U+1F517
S_product_name == <<"p","r","o","d","u","c","t"," ","n","a","m","e">>
S_zero_price == <<"$","0",".","0","0">>
S_product == <<"p","r","o","d","u","c","t">>
S_item == <<"i","t","e","m">>
S_none == <<"n","o","n","e">>
S_snippet == <<"A"," ","s","n","i","p","p","e","t">>
S_link == <<"h","t","t","p",":","/","/","a">>
S_thumb == <<"h","t","t","p",":","/","/","t">>
S_generic == <<"g","e","n","e","r","i","c">>
S_Generic == <<"G","e","n","e","r","i","c">>
S_news == <<"n","e","w","s">>

\* s[:n]
Take(s, n) == SubSeq(s, 1, IF Len(s) < n THEN Len(s) ELSE n)

\* d.get(key, "")[:n] of a tool result
GetText(d, key, n) == Str(Take(GetOr(d, key, Str(<<>>)).str, n))

\* images[i].get("thumbnail", images[i].get("url", "")) if i < len(images) else ""
image_url(images, i) ==
    IF i <= Len(images)
    THEN GetOr(images[i], "thumbnail", GetOr(images[i], "url", Str(<<>>)))
    ELSE Str(<<>>)

\* _validate_filled_data: the running totals are passed down and the totals that
\* come back are added to them.
placeholder_values == {S_product_name, S_zero_price, S_placeholder, S_tbd, S_text, S_title, S_product, S_item, S_untitled, S_n_a, S_none, S_empty}

Values(d) == [i \in 1..Len(d.dict) |-> d.dict[i].val]

RECURSIVE count_placeholders(_, _, _)
RECURSIVE count_children(_, _, _)
count_children(children, total_count, placeholder_count) ==
    IF children = <<>> THEN <<total_count, placeholder_count>>
    ELSE LET tp == count_placeholders(Head(children), total_count, placeholder_count)
         IN count_children(Tail(children), total_count + tp[1], placeholder_count + tp[2])

count_placeholders(obj, total_count, placeholder_count) ==
    IF IsDict(obj) THEN count_children(Values(obj), total_count, placeholder_count)
    ELSE IF IsList(obj) THEN count_children(obj.list, total_count, placeholder_count)
    ELSE IF IsStr(obj) THEN
        <<total_count + 1,
          placeholder_count + (IF lower(strip(obj.str)) \in placeholder_values THEN 1 ELSE 0)>>
    ELSE <<total_count, placeholder_count>>

validate_filled_data(data) ==
    IF ~IsDict(data) THEN FALSE
    ELSE LET tp == count_placeholders(data, 0, 0)
         IN IF tp[1] > 0 THEN 2 * tp[2] < tp[1] ELSE TRUE

\* filled["leftColumn"]: summaryTitle always, summaryText and imageUrl with results.
fill_leftColumn(doc, web_results, images) ==
    IF ~HasKey(doc, "leftColumn") THEN doc
    ELSE LET titled == Put(Get(doc, "leftColumn"), "summaryTitle", Str(S_Summary))
             column == IF web_results # <<>>
                       THEN Put(Put(titled, "summaryText", GetText(web_results[1], "snippet", 200)),
                                "imageUrl", image_url(images, 1))
                       ELSE titled
         IN Put(doc, "leftColumn", column)

\* box.update({...}) for the boxes that have a result
fill_boxes(boxes, web_results, images) ==
    List([i \in 1..Len(boxes.list) |->
            IF i <= Len(web_results)
            THEN Update(boxes.list[i],
                        <<Pair("title", GetText(web_results[i], "title", 50)),
                          Pair("description", GetText(web_results[i], "snippet", 100)),
                          Pair("imageUrl", image_url(images, i)),
                          Pair("url", GetOr(web_results[i], "link", Str(<<>>)))>>)
            ELSE boxes.list[i]])

\* link.update({...}) for the links that have a result
fill_links(links, web_results, with_icon) ==
    List([i \in 1..Len(links.list) |->
            IF i <= Len(web_results)
            THEN Update(links.list[i],
                        <<Pair("text", GetText(web_results[i], "title", 40)),
                          Pair("url", GetOr(web_results[i], "link", Str(<<>>)))>>
                        \o (IF with_icon THEN <<Pair("icon", Str(S_link_icon))>> ELSE <<>>))
            ELSE links.list[i]])

\* filled["main"]: summary and boxes
fill_main(doc, web_results, images) ==
    IF ~HasKey(doc, "main") THEN doc
    ELSE LET main == Get(doc, "main")
             summarised ==
                 IF HasKey(main, "summary") /\ web_results # <<>>
                 THEN Put(main, "summary",
                          Update(Get(main, "summary"),
                                 <<Pair("title", Str(S_SUMMARY)),
                                   Pair("text", GetText(web_results[1], "snippet", 300))>>))
                 ELSE main
             boxed ==
                 IF HasKey(summarised, "boxes") /\ web_results # <<>>
                 THEN Put(summarised, "boxes", fill_boxes(Get(summarised, "boxes"), web_results, images))
                 ELSE summarised
         IN Put(doc, "main", boxed)

fill_top_boxes(doc, web_results, images) ==
    IF HasKey(doc, "boxes") /\ web_results # <<>>
    THEN Put(doc, "boxes", fill_boxes(Get(doc, "boxes"), web_results, images))
    ELSE doc

fill_top_links(doc, web_results) ==
    IF HasKey(doc, "links") /\ web_results # <<>>
    THEN Put(doc, "links", fill_links(Get(doc, "links"), web_results, TRUE))
    ELSE doc

fill_sidebar_links(doc, web_results) ==
    IF HasKey(doc, "sidebar") /\ HasKey(Get(doc, "sidebar"), "links") /\ web_results # <<>>
    THEN Put(doc, "sidebar",
             Put(Get(doc, "sidebar"), "links",
                 fill_links(Get(Get(doc, "sidebar"), "links"), web_results, FALSE)))
    ELSE doc

\* Phase 1, domain "generic": nothing is filled without a search client or when a
\* search raises, since both searches come before the first assignment.
direct_fill_generic(doc, t) ==
    IF t.search_client # "ok" \/ (t.serpapi = "raises") THEN doc
    ELSE LET web_results == Take(t.organic_results, 10)
             images == IF t.serpapi = "ok" THEN Take(t.images, 4) ELSE <<>>
         IN fill_sidebar_links(
                fill_top_links(
                    fill_top_boxes(
                        fill_main(
                            fill_leftColumn(doc, web_results, images),
                            web_results, images),
                        web_results, images),
                    web_results),
                web_results)

\* Phase 1: the branch on domain.lower(); the fallback branch only collects mcp_data.
direct_fill(doc, dom, t) ==
    IF lower(dom) = S_generic THEN direct_fill_generic(doc, t) ELSE doc

\* Phase 2: the LLM's document replaces the direct fill when it is a dict that
\* passes _validate_filled_data; an unavailable LLM, a failed call and a response
\* that does not parse keep the direct fill.
llm_refine(doc, l) ==
    IF l.outcome = "returns" /\ IsDict(l.llm_filled) /\ validate_filled_data(l.llm_filled)
    THEN l.llm_filled
    ELSE doc

\* Phase 3: the document is returned whether or not it validates.
fill_data_with_mcp_tools(template, dom, t, l) ==
    LET doc == llm_refine(direct_fill(template, dom, t), l)
    IN IF validate_filled_data(doc) THEN doc ELSE doc

(***************************************************************************)
(* The templates, tool outcomes and LLM outcomes the fill is exercised on. *)
(* A template is a dict whose well-known keys, when present, hold what the *)
(* direct fill expects there: dicts for leftColumn, main and sidebar,      *)
(* lists of dicts for boxes and links.                                     *)
(***************************************************************************)
Placeholder == Str(S_TBD)

FullBox == Dict4("title", Placeholder, "description", Placeholder, "imageUrl", Str(S_empty), "url", Str(S_empty))
FullLink == Dict3("text", Placeholder, "url", Str(S_empty), "icon", Str(S_empty))

TitleParts == {<<Pair("title", Placeholder)>>, <<Pair("title", Str(S_FixedCopy))>>}

LeftColumnParts ==
    {<<>>,
     <<Pair("leftColumn", Dict1("summaryTitle", Placeholder))>>,
     <<Pair("leftColumn", Dict3("summaryTitle", Placeholder, "summaryText", Placeholder, "imageUrl", Str(S_empty)))>>}

MainParts ==
    {<<>>,
     <<Pair("main", Dict1("summary", Dict2("title", Placeholder, "text", Placeholder)))>>,
     <<Pair("main", Dict2("summary", Dict1("title", Placeholder), "boxes", List(<<FullBox>>)))>>}

BoxesParts ==
    {<<>>,
     <<Pair("boxes", List(<<FullBox, Dict1("title", Placeholder)>>))>>}

LinksParts == {<<>>, <<Pair("links", List(<<FullLink>>))>>}

SidebarParts == {<<>>, <<Pair("sidebar", Dict1("links", List(<<Dict2("text", Placeholder, "url", Str(S_empty))>>)))>>}

FillTemplates ==
    {Dict(a \o b \o c \o d \o e \o f) :
        a \in TitleParts, b \in LeftColumnParts, c \in MainParts,
        d \in BoxesParts, e \in LinksParts, f \in SidebarParts}

Domains == {S_generic, S_Generic, S_news}

WebResults ==
    {Dict3("title", Str(S_DailyNews), "snippet", Str(S_snippet), "link", Str(S_link)),
     Dict1("title", Str(S_DailyNews))}

ImageLists == {<<>>, <<Dict1("thumbnail", Str(S_thumb))>>, <<Dict1("url", Str(S_link))>>}

Tools(search_client, serpapi, organic_results, images) ==
    [k |-> "tools", search_client |-> search_client, serpapi |-> serpapi,
     organic_results |-> organic_results, images |-> images]

ToolOutcomes ==
    {Tools(c, "missing", <<>>, <<>>) : c \in {"missing", "raises"}}
    \cup {Tools("ok", p, r, <<>>) : p \in {"missing", "raises"}, r \in SeqsUpTo(WebResults, MaxResults)}
    \cup {Tools("ok", "ok", r, i) : r \in SeqsUpTo(WebResults, MaxResults), i \in ImageLists}

LLM(outcome, llm_filled) == [k |-> "llm", outcome |-> outcome, llm_filled |-> llm_filled]

\* What json.loads gives for the LLM's response when it parses.
LLMDocuments ==
    {Dict1("foo", Str(S_x)), Dict1("title", Str(S_DailyNews)), Dict1("title", Placeholder),
     Dict1("title", Num(2)), EmptyDict, List(<<Str(S_x)>>), Str(S_x)}

\* The LLM is given the direct fill and may hand it back.
LLMOutcomes(direct) ==
    {LLM("unavailable", Null), LLM("raises", Null)}
    \cup {LLM("returns", d) : d \in LLMDocuments \cup {direct}}

(***************************************************************************)
(* Harness of fill_data_with_mcp_tools: a template and a domain are drawn, *)
(* then the fill runs once.                                                *)
(***************************************************************************)
InitFill ==
    /\ template_data \in FillTemplates
    /\ domain \in Domains
    /\ tools = NoResult
    /\ llm = NoResult
    /\ filled = NoResult
    /\ NotFillIdle

Fill ==
    /\ filled = NoResult
    /\ \E t \in ToolOutcomes :
        \E l \in LLMOutcomes(direct_fill(template_data, domain, t)) :
            /\ tools' = t
            /\ llm' = l
            /\ filled' = fill_data_with_mcp_tools(template_data, domain, t, l)
    /\ UNCHANGED <<template_data, domain, notFillVars>>

NextFill == Fill

SpecFill == InitFill /\ [][NextFill]_vars

(***************************************************************************)
(* Properties of fill_data_with_mcp_tools.                                 *)
(***************************************************************************)
Filled == filled # NoResult

\* C1: the document returned by fill_data_with_mcp_tools has the shape of the template
\* it was given, whatever the tools and the LLM refinement did.
C1_FillKeepsShape == Filled => derive(filled) = derive(template_data)

(***************************************************************************)
(* The orchestration graph (langraph/graph.py), run by generate_dashboard  *)
(* (langraph/api_endpoint.py).                                             *)
(*                                                                         *)
(* The state keeps the AgentState keys the nodes read or write.  None is   *)
(* Null; a Python str that the nodes only pass on is a PyStr.  What the    *)
(* file system, the template loader, the tools, the LLM and the sandbox    *)
(* service do is drawn afresh in every attempt.                            *)
(***************************************************************************)
RecursionLimit == 10     \* graph.ainvoke(initial_state, {"recursion_limit": 10})
MaxAttempts == 3         \* should_continue: validation_attempts >= 3

PyStr(s) == [k |-> "str", text |-> s]
NonEmpty(x) == x # Null /\ x.text # ""

\* sub in s
Contains(s, sub) == \E i \in 0..(Len(s) - Len(sub)) : SubSeq(s, i + 1, i + Len(sub)) = sub

\* Path(root) / filename -> filename
RECURSIVE Basename(_)
Basename(path) ==
    IF \E i \in 1..Len(path) : path[i] = "/"
    THEN Basename(Tail(path))
    ELSE path

P_index_html == <<"i","n","d","e","x",".","h","t","m","l">>
P_App_jsx == <<"s","r","c","/","A","p","p",".","j","s","x">>
P_data_json == <<"s","r","c","/","d","a","t","a",".","j","s","o","n">>
P_README == <<"R","E","A","D","M","E",".","m","d">>
P_sandbox_builder == <<"s","a","n","d","b","o","x","_","b","u","i","l","d","e","r",".","p","y">>
S_App_jsx == <<"A","p","p",".","j","s","x">>
S_App_js == <<"A","p","p",".","j","s">>
S_dot_js == <<".","j","s">>
S_dot_jsx == <<".","j","s","x">>
S_data_json == <<"d","a","t","a",".","j","s","o","n">>

\* The content of a template file, and json.dumps(template_data).
FileText(path) == [k |-> "text", path |-> path]
JsonText(doc) == [k |-> "json_text", doc |-> doc]
FileEntry(path, content) == [path |-> path, content |-> content]
Files(entries) == [k |-> "files", entries |-> entries]

\* f"local-{template_id}"
LocalId(template_id) == [k |-> "local", template_id |-> template_id]

initial_state(dom, prompt) ==
    [user_prompt |-> prompt,
     primary_domain |-> dom,
     selected_template |-> Null,
     template_data |-> Null,
     react_code |-> Null,
     error |-> Null,
     is_valid_ui |-> FALSE,
     validation_attempts |-> 0,
     sandbox_id |-> Null,
     sandbox_embed_url |-> Null,
     sandbox_preview_url |-> Null,
     sandbox_files |-> Null]

\* state["primary_domain"] or "generic"
domain_name(st) == IF Len(st.primary_domain) > 0 THEN st.primary_domain ELSE S_generic

\* The data used when the template has no data.json; the prompt is never empty.
default_template_data(st) ==
    Dict3("title", Str(Take(st.user_prompt, 50)), "domain", Str(domain_name(st)), "items", List(<<>>))

\* sandbox_logic_node, e being what the loader, the file system, the tools and the LLM do.
sandbox_logic(st, e) ==
    IF st.validation_attempts > 3
    THEN [st EXCEPT !.error = PyStr("Maximum attempts reached")]
    ELSE IF e.select = "raises"
    THEN [st EXCEPT !.error = PyStr("Sandbox processing failed: select_template")]
    ELSE IF e.data_json = "invalid"
    THEN [st EXCEPT !.error = PyStr("Sandbox processing failed: JSONDecodeError")]
    ELSE [st EXCEPT
            !.selected_template = PyStr(e.template_id),
            !.template_data =
                IF e.data_json = "missing" THEN default_template_data(st)
                ELSE IF e.data_json = "unreadable" THEN EmptyDict
                ELSE IF ~IsDict(e.template_structure) THEN e.template_structure
                ELSE fill_data_with_mcp_tools(e.template_structure, domain_name(st), e.tools, e.llm)]

\* render_ui_node: the files of the template directory except data.json and
\* sandbox_builder.py, in the order of the walk.
RECURSIVE collect_files(_)
collect_files(listing) ==
    IF listing = <<>> THEN <<>>
    ELSE IF Basename(Head(listing)) \in {P_sandbox_builder, S_data_json}
    THEN collect_files(Tail(listing))
    ELSE <<FileEntry(Head(listing), FileText(Head(listing)))>> \o collect_files(Tail(listing))

\* sandbox_files[path] = {"content": content}
set_file(entries, path, content) ==
    IF \E i \in 1..Len(entries) : entries[i].path = path
    THEN [i \in 1..Len(entries) |-> IF entries[i].path = path THEN FileEntry(path, content) ELSE entries[i]]
    ELSE Append(entries, FileEntry(path, content))

\* The content of the first file whose path holds "App.jsx" or "App.js", else None.
RECURSIVE find_react_code(_)
find_react_code(entries) ==
    IF entries = <<>> THEN Null
    ELSE IF Contains(Head(entries).path, S_App_jsx) \/ Contains(Head(entries).path, S_App_js)
    THEN Head(entries).content
    ELSE find_react_code(Tail(entries))

render_failed(st) ==
    [st EXCEPT !.react_code = Null, !.error = PyStr("Template generation failed: exception")]

\* render_ui_node, e being what the file system holds for the template.
render_ui(st, e) ==
    IF ~Truthy(st.template_data)
    THEN [st EXCEPT !.error = PyStr("No template data available")]
    ELSE IF ~IsDict(st.template_data) \/ st.selected_template = Null \/ e.dir = "missing"
    THEN render_failed(st)
    ELSE LET sandbox_files == set_file(collect_files(e.listing), P_data_json, JsonText(st.template_data))
         IN [st EXCEPT !.react_code = find_react_code(sandbox_files),
                       !.sandbox_files = Files(sandbox_files)]

\* Mutant of next_attempts: the counter is advanced by two.
next_attempts_by_two(st) == st.validation_attempts + 2

\* codesandbox_check_node: attempts = state.get("validation_attempts", 0) + 1
next_attempts(st) == st.validation_attempts + 1

no_files(st) == st.sandbox_files = Null \/ st.sandbox_files.entries = <<>>

has_html(st) ==
    \E i \in 1..Len(st.sandbox_files.entries) : Contains(st.sandbox_files.entries[i].path, P_index_html)

has_js(st) ==
    \E i \in 1..Len(st.sandbox_files.entries) :
        \/ Contains(st.sandbox_files.entries[i].path, S_dot_js)
        \/ Contains(st.sandbox_files.entries[i].path, S_dot_jsx)

\* Mutant of check_failed: the failing check leaves the error as it found it.
check_failed_keeps_error(st, message) ==
    [st EXCEPT !.is_valid_ui = FALSE, !.validation_attempts = next_attempts(st)]

\* Mutant of check_failed: the failing check clears the error.
check_failed_clears_error(st, message) ==
    [st EXCEPT !.is_valid_ui = FALSE, !.validation_attempts = next_attempts(st), !.error = Null]

check_failed(st, message) ==
    [st EXCEPT !.is_valid_ui = FALSE, !.validation_attempts = next_attempts(st), !.error = PyStr(message)]

sandbox_created(st) ==
    [st EXCEPT !.is_valid_ui = TRUE, !.validation_attempts = next_attempts(st),
               !.sandbox_id = PyStr("sandbox-id"),
               !.sandbox_embed_url = PyStr("embed-url"),
               !.sandbox_preview_url = PyStr("preview-url"),
               !.error = Null]

sandbox_local(st, message) ==
    [st EXCEPT !.is_valid_ui = TRUE, !.validation_attempts = next_attempts(st),
               !.sandbox_id = LocalId(st.selected_template),
               !.sandbox_embed_url = Null,
               !.sandbox_preview_url = Null,
               !.error = PyStr(message)]

\* codesandbox_check_node, e being what create_sandbox does.
codesandbox_check(st, e) ==
    IF no_files(st) THEN check_failed(st, "No sandbox files generated")
    ELSE IF ~(has_html(st) \/ has_js(st)) THEN check_failed(st, "Missing essential files in sandbox")
    ELSE IF e = "success" THEN sandbox_created(st)
    ELSE IF e = "failure" THEN sandbox_local(st, "CodeSandbox API error: failure")
    ELSE sandbox_local(st, "CodeSandbox error: exception")

\* Mutant of should_continue: the run ends after the first check, valid or not.
should_continue_always_end(st) == "end"

\* Mutant of should_continue: the ceiling on validation_attempts is missing.
should_continue_without_ceiling(st) ==
    IF st.is_valid_ui THEN "end" ELSE "retry"

should_continue(st) ==
    IF st.is_valid_ui THEN "end"
    ELSE IF st.validation_attempts >= MaxAttempts THEN "end"
    ELSE "retry"

\* generate_dashboard: the response built from the state the graph ended in.
dashboard_response(st) ==
    IF NonEmpty(st.error)
    THEN [success |-> FALSE,
          domain |-> st.primary_domain,
          selected_template |-> PyStr("ErrorView"),
          ui_props |-> Dict1("error", st.error),
          react_code |-> Null,
          error |-> st.error,
          sandbox_id |-> Null,
          sandbox_embed_url |-> Null,
          sandbox_preview_url |-> Null]
    ELSE [success |-> TRUE,
          domain |-> st.primary_domain,
          selected_template |-> st.selected_template,
          ui_props |-> st.template_data,
          react_code |-> st.react_code,
          error |-> Null,
          sandbox_id |-> st.sandbox_id,
          sandbox_embed_url |-> st.sandbox_embed_url,
          sandbox_preview_url |-> st.sandbox_preview_url]

(***************************************************************************)
(* What the environment of the graph does in one attempt.                  *)
(***************************************************************************)
Prompts == {S_DailyNews}

TemplateIds == {"generic-1", "generic-2"}

GraphTemplates ==
    {Dict1("title", Placeholder),
     Dict2("title", Str(S_FixedCopy), "leftColumn", Dict1("summaryTitle", Placeholder))}

\* A data.json that parses to something other than a dict.
GraphOtherDocuments == {List(<<Str(S_x)>>)}

GraphTools ==
    {Tools("missing", "missing", <<>>, <<>>),
     Tools("ok", "ok",
           <<Dict3("title", Str(S_DailyNews), "snippet", Str(S_snippet), "link", Str(S_link))>>,
           <<Dict1("thumbnail", Str(S_thumb))>>)}

GraphLLM(direct) ==
    {LLM("unavailable", Null), LLM("returns", Dict1("foo", Str(S_x))),
     LLM("returns", EmptyDict), LLM("returns", direct)}

Logic(select, template_id, data_json, template_structure, t, l) ==
    [select |-> select, template_id |-> template_id, data_json |-> data_json,
     template_structure |-> template_structure, tools |-> t, llm |-> l]

LogicOutcomes(st) ==
    {Logic("raises", "", "missing", Null, NoResult, NoResult)}
    \cup {Logic("ok", id, d, Null, NoResult, NoResult) :
            id \in TemplateIds, d \in {"missing", "unreadable", "invalid"}}
    \cup {Logic("ok", id, "ok", doc, NoResult, NoResult) :
            id \in TemplateIds, doc \in GraphOtherDocuments}
    \cup UNION {{Logic("ok", id, "ok", tpl, t, l) :
                    id \in TemplateIds, l \in GraphLLM(direct_fill(tpl, domain_name(st), t))} :
                tpl \in GraphTemplates, t \in GraphTools}

TemplateListings ==
    {<<>>,
     <<P_index_html, P_App_jsx, P_data_json>>,
     <<P_README, P_sandbox_builder>>}

RenderOutcomes ==
    {[dir |-> "missing", listing |-> <<>>]}
    \cup {[dir |-> "found", listing |-> l] : l \in TemplateListings}

CreateSandboxOutcomes == {"success", "failure", "exception"}

(***************************************************************************)
(* The graph: domain_logic -> render -> codesandbox_check, then END or     *)
(* domain_logic again as should_continue says; generate_dashboard returns  *)
(* once the graph has ended.                                               *)
(***************************************************************************)
\* The attempt under way: one more than the checks made.
attempt == Len(verdicts) + 1

\* sandbox_logic_node returns selected_template and template_data (graph.py 167-171).
logic_writes(st, e) ==
    ~(st.validation_attempts > 3) /\ e.select # "raises" /\ e.data_json # "invalid"

\* render_ui_node returns react_code and sandbox_files (graph.py 270-274).
render_writes(st, e) ==
    Truthy(st.template_data) /\ IsDict(st.template_data) /\ st.selected_template # Null /\ e.dir # "missing"

InitGraph ==
    /\ state \in {initial_state(S_generic, prompt) : prompt \in Prompts}
    /\ pc = "domain_logic"
    /\ steps = 0
    /\ verdicts = <<>>
    /\ response = NoResult
    /\ origin = [data |-> 0, files |-> 0]
    /\ NotGraphIdle

sandbox_logic_node ==
    /\ pc = "domain_logic"
    /\ steps < RecursionLimit
    /\ \E e \in LogicOutcomes(state) :
        /\ state' = sandbox_logic(state, e)
        /\ origin' = IF logic_writes(state, e) THEN [origin EXCEPT !.data = attempt] ELSE origin
    /\ pc' = "render"
    /\ steps' = steps + 1
    /\ UNCHANGED <<verdicts, response, notGraphVars>>

render_ui_node ==
    /\ pc = "render"
    /\ steps < RecursionLimit
    /\ \E e \in RenderOutcomes :
        /\ state' = render_ui(state, e)
        /\ origin' = IF render_writes(state, e) THEN [origin EXCEPT !.files = attempt] ELSE origin
    /\ pc' = "codesandbox_check"
    /\ steps' = steps + 1
    /\ UNCHANGED <<verdicts, response, notGraphVars>>

codesandbox_check_node ==
    /\ pc = "codesandbox_check"
    /\ steps < RecursionLimit
    /\ \E e \in CreateSandboxOutcomes :
        /\ state' = codesandbox_check(state, e)
        /\ verdicts' = Append(verdicts, IF state'.is_valid_ui THEN "passed" ELSE "failed")
        /\ pc' = IF should_continue(state') = "end" THEN "END" ELSE "domain_logic"
    /\ steps' = steps + 1
    /\ UNCHANGED <<response, origin, notGraphVars>>

generate_dashboard ==
    /\ pc = "END"
    /\ response = NoResult
    /\ response' = dashboard_response(state)
    /\ UNCHANGED <<state, pc, steps, verdicts, origin, notGraphVars>>

Next == sandbox_logic_node \/ render_ui_node \/ codesandbox_check_node \/ generate_dashboard

Spec == InitGraph /\ [][Next]_vars

\* The graph runtime runs the next node, and the endpoint returns, without waiting
\* on anything outside the run.
FairSpec == Spec /\ WF_vars(Next)

(***************************************************************************)
(* Properties of the orchestration graph.                                  *)
(***************************************************************************)
Ended == pc = "END"

\* The last three runs of codesandbox_check_node all failed.
ThreeFailuresInARow ==
    /\ Len(verdicts) >= 3
    /\ \A i \in (Len(verdicts) - 2)..Len(verdicts) : verdicts[i] = "failed"

\* C8: validation_attempts is always an integer between 0 and 3, and no step of the
\* run decreases it.
C8_AttemptsBoundedAndMonotonic ==
    /\ [](state.validation_attempts \in 0..3)
    /\ [][state'.validation_attempts >= state.validation_attempts]_vars

C8_Witness == Ended /\ state.validation_attempts = 3

\* C9: every run reaches the end of the graph, after at most three attempts (three
\* runs of each node), whatever each node's environment did.
C9_EndsWithinThreeAttempts ==
    /\ [](Len(verdicts) <= 3 /\ steps <= 3 * 3)
    /\ <>Ended

C9_Witness ==
    /\ Ended
    /\ Len(verdicts) = 3
    /\ steps = 9
    /\ state.error = PyStr("CodeSandbox error: exception")

\* C10: after three failed validations in a row the run has ended, with
\* validation_attempts = 3, is_valid_ui false and a non-empty error, no fourth attempt
\* has started, and the response reports the failure with that error.
C10_ThreeFailuresEndInFailure ==
    ThreeFailuresInARow =>
        /\ Ended
        /\ state.validation_attempts = 3
        /\ ~state.is_valid_ui
        /\ NonEmpty(state.error)
        /\ Len(verdicts) = 3
        /\ steps = 9
        /\ response # NoResult => (~response.success /\ response.error = state.error)

C10_Witness ==
    /\ ThreeFailuresInARow
    /\ response # NoResult
    /\ ~response.success
    /\ state.validation_attempts = 3

\* C11: within an attempt the nodes run in the order domain_logic, render,
\* codesandbox_check; after a failed check with fewer than 3 attempts the next node is
\* domain_logic again, otherwise the graph ends; validation_attempts grows by exactly
\* one per attempt (it counts the checks made) and only the check changes it.
C11_StepOrder ==
    /\ [](state.validation_attempts = Len(verdicts))
    /\ [][/\ (pc = "domain_logic" /\ pc' # pc) =>
               (pc' = "render" /\ state'.validation_attempts = state.validation_attempts)
          /\ (pc = "render" /\ pc' # pc) =>
               (pc' = "codesandbox_check" /\ state'.validation_attempts = state.validation_attempts)
          /\ (pc = "codesandbox_check" /\ pc' # pc) =>
               /\ state'.validation_attempts = state.validation_attempts + 1
               /\ pc' = (IF ~state'.is_valid_ui /\ state'.validation_attempts < 3
                         THEN "domain_logic" ELSE "END")
          /\ pc = "END" => pc' = "END"]_vars

C11_Witness ==
    /\ pc = "render"
    /\ verdicts = <<"failed">>
    /\ state.validation_attempts = 1
    /\ steps = 4

Responded == response # NoResult

\* C12: when the run ended with is_valid_ui true, the response of generate_dashboard
\* has success true, the selected template id and the filled document.
C12_ValidRunReportsSuccess ==
    (Responded /\ state.is_valid_ui) =>
        /\ response.success
        /\ response.selected_template = state.selected_template
        /\ response.ui_props = state.template_data

\* C13: the render and check nodes of an attempt never read a selected_template,
\* template_data, sandbox_files or react_code written by an earlier attempt: when one of
\* them is about to run, what it reads was written in this attempt or never.
C13_NoStateFromFailedAttempt ==
    /\ pc \in {"render", "codesandbox_check"} => origin.data \in {0, attempt}
    /\ pc = "codesandbox_check" => origin.files \in {0, attempt}

(***************************************************************************)
(* update_json's LLM agent: ToolWhitelist, JsonFillingAgent._discover_tools *)
(* and _init_agent, and the wrapper that each discovered tool is given.    *)
(* Class and method names are character sequences, so that the qualified   *)
(* name f"{class_name}.{method_name}" and startswith("_") are computed.    *)
(***************************************************************************)
MaxModules == 2      \* most modules drawn for the mcp_tools directory

N_SearchClient == <<"S","e","a","r","c","h","C","l","i","e","n","t">>
N_SearchConfig == <<"S","e","a","r","c","h","C","o","n","f","i","g">>
N_SpotifyClient == <<"S","p","o","t","i","f","y","C","l","i","e","n","t">>
N_web_search == <<"w","e","b","_","s","e","a","r","c","h">>
N_search_tavily == <<"s","e","a","r","c","h","_","t","a","v","i","l","y">>
N_make_request == <<"_","m","a","k","e","_","r","e","q","u","e","s","t">>
N_play == <<"p","l","a","y">>

\* f"{class_name}.{method_name}"
qualified_name(class_name, method_name) == class_name \o <<".">> \o method_name

\* ToolWhitelist._DEFAULT_WHITELIST (its keys)
DEFAULT_WHITELIST == {qualified_name(N_SearchClient, N_web_search)}

\* ToolWhitelist.__init__: custom is the dict read from whitelist_path (its keys), or
\* NoResult when there is no path, no file, a file that does not load or not a dict.
ToolWhitelist_init(custom) ==
    IF custom = NoResult THEN DEFAULT_WHITELIST ELSE DEFAULT_WHITELIST \cup custom.keys

is_allowed(wl, class_name, method_name) == qualified_name(class_name, method_name) \in wl

\* method_name.startswith("_")
is_private(method_name) == Len(method_name) > 0 /\ method_name[1] = "_"

ToolClass(class_name, own, methods) == [class_name |-> class_name, own |-> own, methods |-> methods]
ToolModule(loads, classes) == [loads |-> loads, classes |-> classes]
DiscoveredTool(class_name, method_name) ==
    [name |-> qualified_name(class_name, method_name), class_name |-> class_name, method_name |-> method_name]

\* The tools of one class: one per public method, unless Tool(...) raises for it.
RECURSIVE class_tools(_, _, _)
class_tools(class_name, methods, wrap_fails) ==
    IF methods = <<>> THEN <<>>
    ELSE (IF is_private(Head(methods)) \/ Head(methods) \in wrap_fails
          THEN <<>>
          ELSE <<DiscoveredTool(class_name, Head(methods))>>)
         \o class_tools(class_name, Tail(methods), wrap_fails)

\* The tools of one module: those of the classes defined in it.
RECURSIVE module_tools(_, _)
module_tools(classes, wrap_fails) ==
    IF classes = <<>> THEN <<>>
    ELSE (IF Head(classes).own
          THEN class_tools(Head(classes).class_name, Head(classes).methods, wrap_fails)
          ELSE <<>>)
         \o module_tools(Tail(classes), wrap_fails)

\* The loop over the modules; a module that fails to load is skipped.
RECURSIVE scan_modules(_, _)
scan_modules(modules, wrap_fails) ==
    IF modules = <<>> THEN <<>>
    ELSE (IF Head(modules).loads THEN module_tools(Head(modules).classes, wrap_fails) ELSE <<>>)
         \o scan_modules(Tail(modules), wrap_fails)

\* JsonFillingAgent._discover_tools
discover_tools(env, modules) ==
    IF ~env.langchain \/ ~env.dir_exists THEN <<>>
    ELSE scan_modules(modules, env.wrap_fails)

\* JsonFillingAgent._init_agent: is there an agent_executor afterwards.
init_agent(env, agent_tools) ==
    IF ~env.langchain \/ agent_tools = <<>> THEN FALSE
    ELSE IF ~env.api_key THEN FALSE
    ELSE ~env.initialize_raises

\* JsonFillingAgent.__init__
JsonFillingAgent(env, modules) ==
    LET agent_tools == discover_tools(env, modules)
    IN [k |-> "agent", tools |-> agent_tools, agent_executor |-> init_agent(env, agent_tools)]

S_status_success == <<"s","u","c","c","e","s","s">>
S_status_error == <<"e","r","r","o","r">>

\* json.dumps({"status": "success", "result": result})
SuccessJson(result) == JsonText(Dict2("status", Str(S_status_success), "result", result))

\* json.dumps({"status": "error", "message": message})
ErrorJson(message) == JsonText(Dict2("status", Str(S_status_error), "message", PyStr(message)))

Raised == [k |-> "raised"]

\* What the wrapped class does when called, and the argument string the LLM passes:
\* empty or not, and what json.loads makes of it.
Behaviour(ctor, method, result) == [ctor |-> ctor, method |-> method, result |-> result]
Argument(empty, parses, value) == [empty |-> empty, parses |-> parses, value |-> value]

\* Mutant of call: the constructor is called outside the try.
call_constructor_unguarded(b, a) ==
    IF b.ctor = "raises" THEN Raised
    ELSE IF ~a.empty /\ ~a.parses THEN ErrorJson("Invalid JSON input")
    ELSE IF ~a.empty /\ ~IsDict(a.value) THEN ErrorJson("Arguments must be a JSON object (dict)")
    ELSE IF b.method = "returns" THEN SuccessJson(b.result)
    ELSE ErrorJson("exception")

\* make_tool_callable.call: every exception, json.dumps failing on the result
\* included, is turned into an error object.
call(b, a) ==
    IF b.ctor = "raises" THEN ErrorJson("constructor")
    ELSE IF ~a.empty /\ ~a.parses THEN ErrorJson("Invalid JSON input")
    ELSE IF ~a.empty /\ ~IsDict(a.value) THEN ErrorJson("Arguments must be a JSON object (dict)")
    ELSE IF b.method = "raises" THEN ErrorJson("method")
    ELSE IF b.method = "returns_unserializable" THEN ErrorJson("not JSON serializable")
    ELSE SuccessJson(b.result)

(***************************************************************************)
(* Harness of the agent: the mcp_tools directory and the whitelist are     *)
(* drawn, the agent is built once, then its tools are called.              *)
(***************************************************************************)
ToolModules ==
    {ToolModule(TRUE, <<ToolClass(N_SearchClient, TRUE, <<N_make_request, N_search_tavily, N_web_search>>),
                        ToolClass(N_SearchConfig, TRUE, <<>>)>>),
     ToolModule(TRUE, <<ToolClass(N_SearchClient, FALSE, <<N_web_search>>),
                        ToolClass(N_SpotifyClient, TRUE, <<N_play>>)>>),
     ToolModule(TRUE, <<ToolClass(N_SearchClient, TRUE, <<N_web_search>>)>>),
     ToolModule(FALSE, <<>>)}

CustomWhitelists == {NoResult, [keys |-> {qualified_name(N_SpotifyClient, N_play)}]}

AgentEnv(langchain, dir_exists, api_key, initialize_raises, wrap_fails) ==
    [langchain |-> langchain, dir_exists |-> dir_exists, api_key |-> api_key,
     initialize_raises |-> initialize_raises, wrap_fails |-> wrap_fails]

AgentEnvs ==
    {AgentEnv(l, d, key, r, w) :
        l \in BOOLEAN, d \in BOOLEAN, key \in BOOLEAN, r \in BOOLEAN, w \in {{}, {N_search_tavily}}}

Behaviours ==
    {Behaviour("raises", "returns", Null),
     Behaviour("ok", "raises", Null),
     Behaviour("ok", "returns_unserializable", Null),
     Behaviour("ok", "returns", Dict1("organic_results", List(<<>>))),
     Behaviour("ok", "returns", Null)}

Arguments ==
    {Argument(TRUE, FALSE, Null),
     Argument(FALSE, FALSE, Null),
     Argument(FALSE, TRUE, List(<<Str(S_x)>>)),
     Argument(FALSE, TRUE, Str(S_x)),
     Argument(FALSE, TRUE, Dict1("query", Str(S_x)))}

InitAgent ==
    /\ tools_dir \in SeqsUpTo(ToolModules, MaxModules)
    /\ whitelist \in {ToolWhitelist_init(c) : c \in CustomWhitelists}
    /\ agent = NoResult
    /\ tool_result = NoResult
    /\ update_call = NoResult
    /\ NotAgentIdle

create_agent ==
    /\ agent = NoResult
    /\ \E env \in AgentEnvs : agent' = JsonFillingAgent(env, tools_dir)
    /\ UNCHANGED <<tools_dir, whitelist, tool_result, update_call, notAgentVars>>

call_tool ==
    /\ agent # NoResult
    /\ agent.agent_executor
    /\ \E i \in 1..Len(agent.tools), b \in Behaviours, a \in Arguments :
        tool_result' = [tool |-> agent.tools[i].name, behaviour |-> b, argument |-> a,
                        returned |-> call(b, a)]
    /\ UNCHANGED <<tools_dir, whitelist, agent, update_call, notAgentVars>>

NextAgent == create_agent \/ call_tool

SpecAgent == InitAgent /\ [][NextAgent]_vars

(***************************************************************************)
(* Properties of the agent's tools.                                        *)
(***************************************************************************)
\* C14: every tool handed to the LLM agent has a qualified name that the whitelist allows.
C14_OnlyWhitelistedTools ==
    (agent # NoResult /\ agent.agent_executor) =>
        \A i \in 1..Len(agent.tools) :
            is_allowed(whitelist, agent.tools[i].class_name, agent.tools[i].method_name)

IsStatusObject(returned) ==
    /\ returned.k = "json_text"
    /\ IsDict(returned.doc)
    /\ HasKey(returned.doc, "status")
    /\ \/ Get(returned.doc, "status") = Str(S_status_success) /\ HasKey(returned.doc, "result")
       \/ Get(returned.doc, "status") = Str(S_status_error) /\ HasKey(returned.doc, "message")

\* C15: whatever the argument string and whatever the wrapped class does, the wrapper
\* returns a JSON object with status "success" and a result or status "error" and a
\* message, and does not raise; success is returned only when the method returned.
C15_WrapperReturnsStatusObject ==
    tool_result # NoResult =>
        /\ IsStatusObject(tool_result.returned)
        /\ Get(tool_result.returned.doc, "status") = Str(S_status_success) =>
              (tool_result.behaviour.ctor = "ok" /\ tool_result.behaviour.method = "returns")

C15_Witness ==
    /\ tool_result # NoResult
    /\ tool_result.behaviour.ctor = "raises"
    /\ tool_result.argument.empty
    /\ Get(tool_result.returned.doc, "status") = Str(S_status_error)

(***************************************************************************)
(* PromptSanitizer and the prompts sent to the LLM.  A text is a sequence  *)
(* of characters; None is NoResult.                                        *)
(***************************************************************************)
max_length == 2000

Text(chars) == [k |-> "text", chars |-> chars]

\* c * n
Rep(c, n) == [i \in 1..n |-> c]

\* text.split("\n")
RECURSIVE split_lines(_)
split_lines(chars) ==
    LET breaks == {i \in 1..Len(chars) : chars[i] = "\n"}
    IN IF breaks = {} THEN <<chars>>
       ELSE LET first == CHOOSE i \in breaks : \A j \in breaks : i <= j
            IN <<SubSeq(chars, 1, first - 1)>> \o split_lines(SubSeq(chars, first + 1, Len(chars)))

\* "\n".join(lines)
RECURSIVE join_lines(_)
join_lines(lines) ==
    IF lines = <<>> THEN <<>>
    ELSE IF Len(lines) = 1 THEN lines[1]
    ELSE lines[1] \o <<"\n">> \o join_lines(Tail(lines))

\* line.strip() for line in text.split("\n") if line.strip()
stripped_lines(chars) ==
    LET lines == split_lines(chars)
        stripped == [i \in 1..Len(lines) |-> strip(lines[i])]
    IN SelectSeq(stripped, LAMBDA line : line # <<>>)

\* PromptSanitizer.sanitize
sanitize(text) ==
    IF text = NoResult THEN <<>>
    ELSE IF text.chars = <<>> THEN <<>>
    ELSE LET joined == join_lines(stripped_lines(text.chars))
         IN IF Len(joined) > max_length
            THEN SubSeq(joined, 1, max_length) \o <<".", ".", ".">>
            ELSE joined

\* if page_ctx: / if field_ctx:
Given(text) == text # NoResult /\ text.chars # <<>>

Part(part, chars) == [part |-> part, chars |-> chars]

\* JsonFillingAgent.fill up to agent_executor.run: the prompt is the rules, the
\* contexts that were given, and the template.
agent_prompt(executor, template, page_ctx, field_ctx) ==
    IF ~executor THEN Raised
    ELSE <<[part |-> "rules"]>>
         \o (IF Given(page_ctx) THEN <<Part("page_context", page_ctx.chars)>> ELSE <<>>)
         \o (IF Given(field_ctx) THEN <<Part("field_context", field_ctx.chars)>> ELSE <<>>)
         \o <<[part |-> "template", doc |-> JsonText(template)]>>

\* pat in s
HasSub(s, pat) == \E i \in 1..(Len(s) - Len(pat) + 1) : SubSeq(s, i, i + Len(pat) - 1) = pat

\* s.split(pat)[-1]
after_last(s, pat) ==
    LET at == {i \in 1..(Len(s) - Len(pat) + 1) : SubSeq(s, i, i + Len(pat) - 1) = pat}
    IN IF at = {} THEN s
       ELSE LET last == CHOOSE i \in at : \A j \in at : j <= i
            IN SubSeq(s, last + Len(pat), Len(s))

S_User_Request == <<"U","s","e","r"," ","R","e","q","u","e","s","t",":">>
GenericCommands == {<<"c","r","e","a","t","e"," ","a">>, <<"c","r","e","a","t","e"," ","d","a","s","h","b","o","a","r","d">>, <<"m","a","k","e"," ","a">>, <<"b","u","i","l","d"," ","a">>, <<"g","e","n","e","r","a","t","e">>}
GenericTitles == {<<"a","m","a","z","o","n">>, <<"s","h","o","p">>, <<"s","t","o","r","e">>, <<"h","o","m","e">>, <<"w","e","l","c","o","m","e">>}

Tab(title, content) == [title |-> title, content |-> content]

\* The query of fill_data_with_mcp_tools: the line after "User Request:" unless it is
\* a generic command, else the first telling title of the first three tabs (the tabs
\* carry no structured part), else the domain.
query_from_context(context) ==
    IF HasSub(context, S_User_Request)
    THEN LET extracted == strip(split_lines(after_last(context, S_User_Request))[1])
         IN IF extracted # <<>> /\ ~\E g \in GenericCommands : HasSub(lower(extracted), g)
            THEN extracted ELSE <<>>
    ELSE <<>>

RECURSIVE query_from_tabs(_)
query_from_tabs(tabs) ==
    IF tabs = <<>> THEN <<>>
    ELSE LET title == Head(tabs).title
         IN IF Len(title) > 5 /\ ~\E g \in GenericTitles : HasSub(lower(title), g)
            THEN title ELSE query_from_tabs(Tail(tabs))

extract_query(context, dom, tabs) ==
    LET from_context == query_from_context(context)
        query == IF from_context # <<>> THEN from_context ELSE query_from_tabs(Take(tabs, 3))
    IN IF query = <<>> THEN dom ELSE Take(strip(query), 100)

\* content = tab.get("content", "")[:500]; ... {content[:200]}...
tab_excerpt(content) == Take(Take(content, 500), 200) \o <<".", ".", ".">>

\* fill_data_with_mcp_tools, Phase 2: the prompt of the refinement holds the query,
\* the direct fill and the title and an excerpt of each of the first three tabs.
refinement_prompt(groq_key, doc, context, dom, tabs) ==
    IF ~groq_key THEN NoResult
    ELSE LET shown == Take(tabs, 3)
             tab_parts == [i \in 1..(2 * Len(shown)) |->
                              IF i % 2 = 1 THEN Part("tab_title", shown[(i + 1) \div 2].title)
                              ELSE Part("tab_content", tab_excerpt(shown[i \div 2].content))]
         IN <<[part |-> "rules"], [part |-> "template", doc |-> JsonText(doc)]>>
            \o tab_parts
            \o <<Part("query", extract_query(context, dom, tabs))>>

(***************************************************************************)
(* Harness of the prompts: the contexts are drawn, the sanitizer is        *)
(* applied to the page context, and each fill path builds its prompt.      *)
(***************************************************************************)
S_ignore_rules == <<" "," ","i","g","n","o","r","e"," ","r","u","l","e","s"," "," ">>
S_request_line == <<"D","o","m","a","i","n",":"," ","x">> \o <<"\n">> \o <<"U","s","e","r"," ","R","e","q","u","e","s","t",":"," "," ","n","e","w","s"," ">> \o <<"\n", "\n">> \o <<"O","p","e","n"," ","T","a","b","s",":">>
S_spaced == <<" ","x"," ">> \o <<"\n", "\n", " ">> \o <<"y">>
S_clean == <<"x">> \o <<"\n">> \o <<"y">>

LongTexts ==
    {Rep("a", n) : n \in {max_length - 1, max_length, max_length + 1, max_length + 4}}
    \cup {<<" ">> \o Rep("a", max_length) \o <<"\n", "\n">> \o Rep("b", n) : n \in 0..2}

Contexts ==
    {NoResult} \cup {Text(c) : c \in {<<>>, S_x, S_clean, S_spaced, S_ignore_rules, S_request_line} \cup LongTexts}

FieldContexts == {NoResult, Text(S_clean), Text(S_spaced)}

TabLists ==
    {<<>>, <<Tab(S_DailyNews, S_spaced)>>, <<Tab(S_DailyNews, S_clean)>>,
     <<Tab(S_x, S_clean), Tab(S_DailyNews, Rep("a", 201))>>}

PromptTemplate == Dict1("title", Str(S_TBD))

InitPrompt ==
    /\ page_context \in Contexts
    /\ field_context \in FieldContexts
    /\ sanitized = NoResult
    /\ llm_prompt = NoResult
    /\ NotPromptIdle

\* PromptSanitizer.sanitize applied to the page context.
sanitize_context ==
    /\ sanitized = NoResult
    /\ sanitized' = Text(sanitize(page_context))
    /\ UNCHANGED <<page_context, field_context, llm_prompt, notPromptVars>>

\* update_json: agent.fill(template, page_context, field_context)
agent_fill ==
    /\ \E executor \in BOOLEAN :
        LET parts == agent_prompt(executor, PromptTemplate, page_context, field_context)
        IN llm_prompt' = IF parts = Raised THEN Raised
                     ELSE [k |-> "prompt", path |-> "agent", parts |-> parts, tabs |-> <<>>, dom |-> <<>>]
    /\ UNCHANGED <<page_context, field_context, sanitized, notPromptVars>>

\* fill_data_with_mcp_tools: the page context is the context argument.
refine ==
    /\ page_context # NoResult
    /\ \E groq_key \in BOOLEAN, tabs \in TabLists, dom \in {S_generic, S_news} :
        LET parts == refinement_prompt(groq_key, PromptTemplate, page_context.chars, dom, tabs)
        IN llm_prompt' = IF parts = NoResult THEN NoResult
                     ELSE [k |-> "prompt", path |-> "refinement", parts |-> parts, tabs |-> tabs, dom |-> dom]
    /\ UNCHANGED <<page_context, field_context, sanitized, notPromptVars>>

NextPrompt == sanitize_context \/ agent_fill \/ refine

SpecPrompt == InitPrompt /\ [][NextPrompt]_vars

(***************************************************************************)
(* Properties of the sanitizer and the prompts.                            *)
(***************************************************************************)
\* C16: the string the sanitizer returns is at most 2000 characters long, the
\* truncation marker included.
C16_SanitizedAtMostMaxLength == sanitized # NoResult => Len(sanitized.chars) <= max_length

\* The prompt the same path builds when every context handed to it went through the
\* sanitizer first.
SanitizedTabs(tabs) == [i \in 1..Len(tabs) |-> Tab(tabs[i].title, sanitize(Text(tabs[i].content)))]

PromptFromSanitized ==
    IF llm_prompt.path = "agent"
    THEN agent_prompt(TRUE, PromptTemplate, Text(sanitize(page_context)), Text(sanitize(field_context)))
    ELSE refinement_prompt(TRUE, PromptTemplate, sanitize(page_context), llm_prompt.dom, SanitizedTabs(llm_prompt.tabs))

\* C17: every page context or field context embedded in a prompt sent to the LLM went
\* through the sanitizer first, on the agent's path and on the refinement's path.
C17_PromptsHoldSanitizedContext ==
    (llm_prompt # NoResult /\ llm_prompt # Raised) => llm_prompt.parts = PromptFromSanitized

(***************************************************************************)
(* DeterministicFiller.  Field names and contexts are sequences of         *)
(* characters; the keys of a template are field names.  The traversal      *)
(* threads the instance through the recursion: its cache, the searches     *)
(* made, the outcomes the search agent still has to give, and the values   *)
(* written in place of a leaf.                                             *)
(***************************************************************************)
MaxFills == 2        \* calls of fill on one instance
MaxSearches == 2     \* searches one call of fill can need: the templates have at most two leaves to fill

S_none_value == <<"n","o","n","e">>
S_list_item == <<"[","]">>

\* DeterministicFiller._is_empty_value
is_empty_value(text) ==
    lower(strip(text)) \in {S_empty, S_tbd, S_placeholder, S_n_a, S_text, S_title, S_untitled, S_none_value}

\* hashlib.md5(f"{field_name}:{context}".encode()).hexdigest(): the digest is taken
\* to tell any two formatted strings apart.
cache_key(field_name, context) == field_name \o <<":">> \o context

ContentKeys == <<"title", "name", "heading", "description", "body">>

\* walk of _extract_best_match; None is the empty string, both are falsy.
RECURSIVE walk(_)
RECURSIVE walk_first(_)
walk(obj) ==
    IF IsList(obj) THEN walk_first(obj.list)
    ELSE IF IsDict(obj)
    THEN LET hits == {i \in 1..Len(ContentKeys) :
                         /\ HasKey(obj, ContentKeys[i])
                         /\ IsStr(Get(obj, ContentKeys[i]))
                         /\ Len(Get(obj, ContentKeys[i]).str) > 2}
         IN IF hits # {}
            THEN Get(obj, ContentKeys[CHOOSE i \in hits : \A j \in hits : i <= j]).str
            ELSE walk_first([i \in 1..Len(obj.dict) |-> obj.dict[i].val])
    ELSE <<>>

walk_first(items) ==
    IF items = <<>> THEN <<>>
    ELSE LET result == walk(Head(items))
         IN IF result # <<>> THEN result ELSE walk_first(Tail(items))

\* DeterministicFiller._extract_best_match
extract_best_match(search_results) == walk(search_results)

Filler(has_agent, cache, log, oracle, writes) ==
    [search_agent |-> has_agent, cache |-> cache, log |-> log, oracle |-> oracle, writes |-> writes]

Search(field_name, context, outcome) == [field_name |-> field_name, context |-> context, outcome |-> outcome]

Written(self, field_name, context, original, value) ==
    [field_name |-> field_name, context |-> context, original |-> original, value |-> value,
     at |-> Len(self.log)]

Found(self, field_name, context, original, value) ==
    [value |-> value,
     self |-> [self EXCEPT !.writes = Append(@, Written(self, field_name, context, original, value))]]

\* DeterministicFiller._find_value_for_field; original is the leaf being replaced.
find_value_for_field(self, field_name, context, original) ==
    IF ~self.search_agent \/ context = <<>> THEN Found(self, field_name, context, original, <<>>)
    ELSE LET key == cache_key(field_name, context)
         IN IF \E e \in self.cache : e.key = key
            THEN Found(self, field_name, context, original, (CHOOSE e \in self.cache : e.key = key).value)
            ELSE LET outcome == Head(self.oracle)
                     searched == [self EXCEPT !.log = Append(@, Search(field_name, context, outcome)),
                                              !.oracle = Tail(@)]
                 IN IF outcome = Raised
                    THEN Found(searched, field_name, context, original, <<>>)
                    ELSE LET value == extract_best_match(outcome)
                         IN Found([searched EXCEPT !.cache = @ \cup {[key |-> key, value |-> value]}],
                                  field_name, context, original, value)

\* DeterministicFiller._fill_recursive; field_name is path[-1], "" for the root.
RECURSIVE fill_recursive(_, _, _, _)
RECURSIVE fill_pairs(_, _, _)
RECURSIVE fill_elements(_, _, _)
fill_recursive(self, node, context, field_name) ==
    IF IsStr(node)
    THEN IF is_empty_value(node.str)
         THEN LET found == find_value_for_field(self, field_name, context, node)
              IN [node |-> Str(found.value), self |-> found.self]
         ELSE [node |-> node, self |-> self]
    ELSE IF IsNull(node)
    THEN IF context # <<>>
         THEN LET found == find_value_for_field(self, field_name, context, node)
              IN [node |-> Str(found.value), self |-> found.self]
         ELSE [node |-> node, self |-> self]
    ELSE IF IsDict(node)
    THEN LET done == fill_pairs(self, node.dict, context)
         IN [node |-> Dict(done.items), self |-> done.self]
    ELSE IF IsList(node) /\ node.list # <<>>
    THEN LET done == fill_elements(self, node.list, context)
         IN [node |-> List(done.items), self |-> done.self]
    ELSE [node |-> node, self |-> self]

fill_pairs(self, pairs, context) ==
    IF pairs = <<>> THEN [items |-> <<>>, self |-> self]
    ELSE LET first == fill_recursive(self, Head(pairs).val, context, Head(pairs).key)
             rest == fill_pairs(first.self, Tail(pairs), context)
         IN [items |-> <<Pair(Head(pairs).key, first.node)>> \o rest.items, self |-> rest.self]

fill_elements(self, elements, context) ==
    IF elements = <<>> THEN [items |-> <<>>, self |-> self]
    ELSE LET first == fill_recursive(self, Head(elements), context, S_list_item)
             rest == fill_elements(first.self, Tail(elements), context)
         IN [items |-> <<first.node>> \o rest.items, self |-> rest.self]

(***************************************************************************)
(* Harness of the filler: one instance, with or without a search agent,    *)
(* is asked to fill drawn templates; each search ends as the agent decides.*)
(***************************************************************************)
F_a == <<"a">>
F_a_b == <<"a",":","b">>
X_c == <<"c">>
X_b_c == <<"b",":","c">>
S_ok == <<"o","k">>

FillerTemplates ==
    {Str(S_TBD), Num(1), List(<<>>),
     Dict1(F_a, Str(S_TBD)), Dict1(F_a_b, Null), Dict1(F_a, Str(S_empty)),
     Dict2(S_title, Str(S_FixedCopy), F_a, Null),
     List(<<Str(S_untitled), Null>>)}

\* page_context or ""
FillerContexts == {S_empty, X_c, X_b_c}

SearchOutcomes ==
    {Raised,
     Dict1("results", List(<<>>)),
     Dict1("results", List(<<Dict1("title", Str(S_DailyNews))>>)),
     Dict1("results", List(<<Dict2("title", Str(S_ok), "snippet", Dict1("body", Str(S_snippet)))>>))}

Oracles == [1..MaxSearches -> SearchOutcomes]

fill_calls == IF fill_call = NoResult THEN 0 ELSE fill_call.n

InitFiller ==
    /\ search_agent \in BOOLEAN
    /\ search_cache = {}
    /\ searches = <<>>
    /\ fill_call = NoResult
    /\ NotFillerIdle

\* DeterministicFiller.fill
fill ==
    /\ fill_calls < MaxFills
    /\ \E template \in FillerTemplates, context \in FillerContexts, oracle \in Oracles :
        LET done == fill_recursive(Filler(search_agent, search_cache, searches, oracle, <<>>),
                                   template, context, S_empty)
        IN /\ search_cache' = done.self.cache
           /\ searches' = done.self.log
           /\ fill_call' = [n |-> fill_calls + 1, template |-> template, context |-> context,
                            result |-> done.node, writes |-> done.self.writes]
    /\ UNCHANGED <<search_agent, notFillerVars>>

NextFiller == fill

SpecFiller == InitFiller /\ [][NextFiller]_vars

(***************************************************************************)
(* Properties of the filler.                                               *)
(***************************************************************************)
\* C18: over the lifetime of one instance the search is called at most once for each
\* distinct pair of field name and context, whatever the searches give.
C18_OneSearchPerPair ==
    \A i, j \in 1..Len(searches) :
        i < j => ~(searches[i].field_name = searches[j].field_name /\ searches[i].context = searches[j].context)

\* C19: without a search agent the filled document is the template, and a leaf for
\* which nothing usable was found keeps its original text, or stays null.
C19_UnfilledLeavesKept ==
    fill_call # NoResult =>
        /\ ~search_agent => fill_call.result = fill_call.template
        /\ \A i \in 1..Len(fill_call.writes) :
              fill_call.writes[i].value = <<>> => fill_call.writes[i].original = Str(<<>>)

\* C20: every value written in place of a leaf (the empty string, written when nothing
\* was found, set aside) was extracted from the result of a search made before for the
\* same field name and the same context.
C20_WrittenValuesComeFromOwnSearch ==
    fill_call # NoResult =>
        \A i \in 1..Len(fill_call.writes) :
            LET w == fill_call.writes[i]
            IN w.value # <<>> => \E n \in 1..w.at :
                /\ searches[n].field_name = w.field_name
                /\ searches[n].context = w.context
                /\ searches[n].outcome # Raised
                /\ extract_best_match(searches[n].outcome) = w.value

\* The key sets, in order, and the array lengths of r are those of t.
RECURSIVE SameFrame(_, _)
SameFrame(t, r) ==
    IF IsDict(t) THEN
        /\ IsDict(r) /\ Len(r.dict) = Len(t.dict)
        /\ \A i \in 1..Len(t.dict) : r.dict[i].key = t.dict[i].key /\ SameFrame(t.dict[i].val, r.dict[i].val)
    ELSE IF IsList(t) THEN
        /\ IsList(r) /\ Len(r.list) = Len(t.list)
        /\ \A i \in 1..Len(t.list) : SameFrame(t.list[i], r.list[i])
    ELSE IsLeaf(r)

\* C21: the fill changes a leaf only if it is a placeholder of the data model; every
\* other leaf, the key sets and the array lengths are in the result as in the template.
C21_OnlyPlaceholdersChange ==
    fill_call # NoResult =>
        /\ SameFrame(fill_call.template, fill_call.result)
        /\ LeavesKept(fill_call.template, fill_call.result)

(***************************************************************************)
(* update_json: parse, the LLM path, the fallback fill.                    *)
(***************************************************************************)
\* The content string handed to update_json, and what json.loads makes of it.
Content(parses, doc) == [k |-> "content", parses |-> parses, doc |-> doc]

\* search_walk of simple_fill; None is the empty string, both are falsy.
RECURSIVE search_walk(_)
RECURSIVE search_walk_first(_)
search_walk(obj) ==
    IF IsList(obj) THEN search_walk_first(obj.list)
    ELSE IF IsDict(obj)
    THEN LET names == <<"title", "name", "heading">>
             hits == {i \in 1..3 : HasKey(obj, names[i]) /\ IsStr(Get(obj, names[i]))}
         IN IF hits # {}
            THEN Get(obj, names[CHOOSE i \in hits : \A j \in hits : i <= j]).str
            ELSE search_walk_first([i \in 1..Len(obj.dict) |-> obj.dict[i].val])
    ELSE <<>>

search_walk_first(items) ==
    IF items = <<>> THEN <<>>
    ELSE LET result == search_walk(Head(items))
         IN IF result # <<>> THEN result ELSE search_walk_first(Tail(items))

\* What a leaf becomes when a search is made for it: the first text of the results,
\* the leaf itself when the search raises or gives no text.
searched_leaf(node, outcome) ==
    IF outcome = Raised THEN node
    ELSE IF search_walk(outcome) # <<>> THEN Str(search_walk(outcome)) ELSE node

\* simple_fill of update_json
RECURSIVE simple_fill(_, _, _, _)
simple_fill(node, has_agent, context, outcome) ==
    IF IsStr(node)
    THEN IF is_empty_or_placeholder(node.str) /\ has_agent /\ context # <<>>
         THEN searched_leaf(node, outcome) ELSE node
    ELSE IF IsNull(node)
    THEN IF has_agent /\ context # <<>> THEN searched_leaf(node, outcome) ELSE node
    ELSE IF IsDict(node)
    THEN Dict([i \in 1..Len(node.dict) |->
                 Pair(node.dict[i].key, simple_fill(node.dict[i].val, has_agent, context, outcome))])
    ELSE IF IsList(node)
    THEN List([i \in 1..Len(node.list) |-> simple_fill(node.list[i], has_agent, context, outcome)])
    ELSE node

\* Mutant of on_parse_failure: the exception of json.loads is not caught.
on_parse_failure_raises(content) == Raised

\* except Exception: return content
on_parse_failure(content) == content

\* The fallback block: any exception in it returns the content.
fallback_fill(content, context, env) ==
    IF env.fallback_raises THEN content
    ELSE JsonText(simple_fill(content.doc, env.search_agent, context, env.search))

\* update_json
update_json(content, context, env) ==
    IF ~content.parses THEN on_parse_failure(content)
    ELSE IF env.agent_raises THEN fallback_fill(content, context, env)
    ELSE IF JsonFillingAgent(env.agent_env, env.modules).agent_executor /\ env.llm.outcome = "returns"
    THEN JsonText(safe_merge(content.doc, env.llm.llm_filled))
    ELSE fallback_fill(content, context, env)

UpdateEnv(agent_env, modules, agent_raises, l, has_agent, search, fallback_raises) ==
    [agent_env |-> agent_env, modules |-> modules, agent_raises |-> agent_raises, llm |-> l,
     search_agent |-> has_agent, search |-> search, fallback_raises |-> fallback_raises]

UpdateDocuments ==
    {Dict1("title", Str(S_TBD)), Dict2("title", Str(S_FixedCopy), "image", Null), List(<<Str(S_empty)>>)}

Contents == {Content(FALSE, Null)} \cup {Content(TRUE, d) : d \in UpdateDocuments}

UpdateSearches ==
    {Raised, Dict1("results", List(<<>>)), Dict1("results", List(<<Dict1("title", Str(S_DailyNews))>>))}

UpdateLLM ==
    {LLM("raises", Null), LLM("returns", Dict1("title", Str(S_Hallucinated))), LLM("returns", Str(S_x))}

UpdateEnvs ==
    {UpdateEnv(AgentEnv(l, TRUE, key, r, {}), tools_dir, ar, out, sa, srch, fr) :
        l \in BOOLEAN, key \in BOOLEAN, r \in BOOLEAN, ar \in BOOLEAN, out \in UpdateLLM,
        sa \in BOOLEAN, srch \in UpdateSearches, fr \in BOOLEAN}

InitUpdate ==
    /\ tools_dir \in SeqsUpTo(ToolModules, 1)
    /\ whitelist = ToolWhitelist_init(NoResult)
    /\ agent = NoResult
    /\ tool_result = NoResult
    /\ update_call = NoResult
    /\ NotAgentIdle

update_json_call ==
    /\ update_call = NoResult
    /\ \E content \in Contents, context \in {S_empty, S_news}, env \in UpdateEnvs :
        update_call' = [content |-> content, context |-> context, env |-> env,
                        returned |-> update_json(content, context, env)]
    /\ UNCHANGED <<tools_dir, whitelist, agent, tool_result, notAgentVars>>

NextUpdate == update_json_call

SpecUpdate == InitUpdate /\ [][NextUpdate]_vars

LLMSucceeds(u) ==
    /\ ~u.env.agent_raises
    /\ u.env.agent_env.langchain /\ u.env.agent_env.api_key /\ ~u.env.agent_env.initialize_raises
    /\ discover_tools(u.env.agent_env, u.env.modules) # <<>>
    /\ u.env.llm.outcome = "returns"

\* C22: update_json never raises; unparseable input comes back unchanged; when the LLM
\* path is not configured or fails the fallback fill gives the result; when the fallback
\* fails as well the input comes back unchanged.
C22_FailClosedChain ==
    update_call # NoResult =>
        /\ update_call.returned # Raised
        /\ ~update_call.content.parses => update_call.returned = update_call.content
        /\ (update_call.content.parses /\ ~LLMSucceeds(update_call)) =>
              IF update_call.env.fallback_raises
              THEN update_call.returned = update_call.content
              ELSE /\ update_call.returned.k = "json_text"
                   /\ SameFrame(update_call.content.doc, update_call.returned.doc)
                   /\ LeavesKept(update_call.content.doc, update_call.returned.doc)

C22_Witness ==
    /\ update_call # NoResult
    /\ update_call.content.parses
    /\ ~update_call.env.agent_raises
    /\ JsonFillingAgent(update_call.env.agent_env, update_call.env.modules).agent_executor
    /\ update_call.env.llm.outcome = "raises"
    /\ update_call.env.fallback_raises
    /\ update_call.returned = update_call.content

(***************************************************************************)
(* TemplateLoader.select_template.  Scores are exact fractions; the        *)
(* default weights 0.4, 0.3, 0.2, 0.1 and the default threshold 0.3 are    *)
(* tenths.  A URL pattern is the set of URLs its regular expression finds. *)
(***************************************************************************)
MaxKeywords == 3     \* longest list of words drawn for a request
MaxTemplates == 2    \* most templates drawn for a registry

Rat(n, d) == [num |-> n, den |-> d]
RatLt(a, b) == a.num * b.den < b.num * a.den
RatEq(a, b) == a.num * b.den = b.num * a.den
RECURSIVE GCD(_, _)
GCD(m, n) == IF n = 0 THEN m ELSE GCD(n, m % n)
\* The fraction in lowest terms.
Reduced(n, d) == Rat(n \div GCD(n, d), d \div GCD(n, d))
RatAdd(a, b) == Reduced(a.num * b.den + b.num * a.den, a.den * b.den)
RatMul(a, b) == Reduced(a.num * b.num, a.den * b.den)
RatMin(a, b) == IF RatLt(b, a) THEN b ELSE a
Zero == Rat(0, 1)
Half == Rat(1, 2)
One == Rat(1, 1)

Range(seq) == {seq[i] : i \in 1..Len(seq)}

\* keywords = prompt.lower().split() + [titles]; keywords = [k for k in keywords if len(k) > 3][:20]
graph_keywords(words, titles) ==
    LET all == [i \in 1..Len(words) |-> lower(words[i])] \o [i \in 1..Len(titles) |-> lower(titles[i])]
    IN Take(SelectSeq(all, LAMBDA kw : Len(kw) > 3), 20)

Matching(keywords, domains, fallback_domains, url_patterns, min_tab_count, priority) ==
    [keywords |-> keywords, domains |-> domains, fallback_domains |-> fallback_domains,
     url_patterns |-> url_patterns, min_tab_count |-> min_tab_count, priority |-> priority]

TemplateEntry(id, matching) == [id |-> id, matching |-> matching]

Weights(kw, dom, url, tab) ==
    [keyword_match |-> kw, domain_match |-> dom, url_pattern_match |-> url, tab_count_match |-> tab]

Registry(templates, weights, min_score_threshold, default_template) ==
    [k |-> "registry", templates |-> templates, weights |-> weights,
     min_score_threshold |-> min_score_threshold, default_template |-> default_template]

Request(dom, keywords, tab_urls) ==
    [k |-> "request", domain |-> dom, keywords |-> keywords, tab_count |-> Len(tab_urls), tab_urls |-> tab_urls]

\* keyword_matches = sum(1 for kw in keywords_lower if kw in template_keywords)
keyword_matches(keywords, template_keywords) ==
    Cardinality({i \in 1..Len(keywords) :
                    lower(keywords[i]) \in Range([j \in 1..Len(template_keywords) |-> lower(template_keywords[j])])})

\* keyword_score = min(keyword_matches / max(len(template_keywords), 1), 1.0)
keyword_score(keywords, template_keywords) ==
    RatMin(Rat(keyword_matches(keywords, template_keywords),
               IF Len(template_keywords) > 1 THEN Len(template_keywords) ELSE 1), One)

domain_score(dom, matching) ==
    IF dom \in matching.domains THEN One
    ELSE IF dom \in matching.fallback_domains THEN Half
    ELSE Zero

url_score(tab_urls, url_patterns) ==
    IF url_patterns # <<>> /\ tab_urls # <<>>
    THEN RatMin(Rat(Cardinality({i \in 1..Len(tab_urls) :
                                    \E j \in 1..Len(url_patterns) : tab_urls[i] \in url_patterns[j]}),
                    Len(tab_urls)), One)
    ELSE Zero

tab_count_score(tab_count, matching) == IF tab_count >= matching.min_tab_count THEN One ELSE Half

\* The weighted total of one template, priority boost applied.
total_score(reg, matching, req) ==
    RatMul(RatAdd(RatAdd(RatMul(keyword_score(req.keywords, matching.keywords), reg.weights.keyword_match),
                         RatMul(domain_score(req.domain, matching), reg.weights.domain_match)),
                  RatAdd(RatMul(url_score(req.tab_urls, matching.url_patterns), reg.weights.url_pattern_match),
                         RatMul(tab_count_score(req.tab_count, matching), reg.weights.tab_count_match))),
           Rat(matching.priority, 10))

template_scores(reg, req) ==
    [i \in 1..Len(reg.templates) |-> total_score(reg, reg.templates[i].matching, req)]

\* max(scores, key=scores.get): the first of the highest, in the registry's order.
best_template(scores) ==
    CHOOSE i \in 1..Len(scores) :
        /\ \A j \in 1..Len(scores) : ~RatLt(scores[i], scores[j])
        /\ \A j \in 1..(i - 1) : RatLt(scores[j], scores[i])

Selected(template_id, score) == [k |-> "selected", template_id |-> template_id, score |-> score]

\* best_template_id = default_template; template_config = templates[best_template_id]
default_entry(reg, scores) ==
    LET at == {i \in 1..Len(reg.templates) : reg.templates[i].id = reg.default_template}
    IN IF at = {} THEN Raised
       ELSE Selected(reg.default_template, scores[CHOOSE i \in at : TRUE])

\* TemplateLoader.select_template
select_template(reg, req) ==
    LET scores == template_scores(reg, req)
    IN IF scores = <<>> THEN Raised
       ELSE LET best == best_template(scores)
            IN IF RatLt(scores[best], reg.min_score_threshold)
               THEN default_entry(reg, scores)
               ELSE Selected(reg.templates[best].id, scores[best])

(***************************************************************************)
(* Harness of the selection: a registry and a request are drawn, then the  *)
(* template is selected.                                                   *)
(***************************************************************************)
K_java == <<"j","a","v","a">>
K_Java == <<"J","a","v","a">>
K_rust == <<"r","u","s","t">>
K_zig == <<"z","i","g">>

Words == {K_java, K_Java, K_rust, K_zig}

Matchings ==
    {Matching(<<>>, {"code"}, {}, <<>>, 0, 5),
     Matching(<<K_java, K_rust>>, {"code"}, {"generic"}, <<{"github.com"}>>, 0, 5),
     Matching(<<K_Java>>, {}, {"code"}, <<>>, 2, 10),
     Matching(<<K_rust, K_zig, K_java>>, {"generic"}, {}, <<>>, 0, 1)}

TemplateNames == <<"code-1", "generic-1", "study-1">>

Registries ==
    {Registry([i \in 1..n |-> TemplateEntry(TemplateNames[i], ms[i])], w, th, dflt) :
        n \in 1..MaxTemplates, ms \in [1..MaxTemplates -> Matchings],
        w \in {Weights(Rat(4, 10), Rat(3, 10), Rat(2, 10), Rat(1, 10)), Weights(One, Zero, Zero, Zero)},
        th \in {Rat(3, 10), Rat(6, 10)}, dflt \in {"code-1", "generic-1"}}

Requests ==
    {Request(dom, graph_keywords(words, <<>>), urls) :
        dom \in {"code", "study"}, words \in SeqsUpTo(Words, MaxKeywords),
        urls \in {<<>>, <<"github.com", "example.com">>}}

InitSelect ==
    /\ registry \in Registries
    /\ request \in Requests
    /\ selection = NoResult
    /\ NotSelectIdle

select ==
    /\ selection = NoResult
    /\ selection' = [scores |-> template_scores(registry, request),
                     keyword_scores |-> [i \in 1..Len(registry.templates) |->
                                            keyword_score(request.keywords, registry.templates[i].matching.keywords)],
                     returned |-> select_template(registry, request)]
    /\ UNCHANGED <<registry, request, notSelectVars>>

NextSelect == select

SpecSelect == InitSelect /\ [][NextSelect]_vars

(***************************************************************************)
(* Properties of the selection.                                            *)
(***************************************************************************)
\* The template keywords, told apart, that occur among the request's keywords.
MatchedKeywords(keywords, template_keywords) ==
    Range([i \in 1..Len(template_keywords) |-> lower(template_keywords[i])])
    \cap Range([i \in 1..Len(keywords) |-> lower(keywords[i])])

\* C23: the keyword score of a template is the number of distinct template keywords
\* that occur among the request keywords over the number of template keywords
\* declared, 0 when none is declared; a repeated request keyword counts once.
C23_KeywordScoreIsShareOfTemplateKeywords ==
    selection # NoResult =>
        \A i \in 1..Len(registry.templates) :
            LET declared == registry.templates[i].matching.keywords
            IN RatEq(selection.keyword_scores[i],
                     IF declared = <<>> THEN Zero
                     ELSE Rat(Cardinality(MatchedKeywords(request.keywords, declared)), Len(declared)))

AllBelowThreshold == \A i \in 1..Len(selection.scores) : RatLt(selection.scores[i], registry.min_score_threshold)

\* C24: select_template returns the id of a highest-scoring template, and the
\* configured default id when every score is below the threshold.
C24_BestOrDefault ==
    selection # NoResult =>
        /\ selection.returned # Raised
        /\ IF AllBelowThreshold
           THEN selection.returned.template_id = registry.default_template
           ELSE \E i \in 1..Len(registry.templates) :
                   /\ selection.returned.template_id = registry.templates[i].id
                   /\ \A j \in 1..Len(selection.scores) : ~RatLt(selection.scores[i], selection.scores[j])

\* C25: for the same template, domain, tabs and configuration, a request that matches
\* more of the template's keywords never scores lower than one that matches fewer.
C25_ScoreGrowsWithMatchedKeywords ==
    selection # NoResult =>
        \A i \in 1..Len(registry.templates), other \in Requests :
            LET declared == registry.templates[i].matching.keywords
            IN (/\ other.domain = request.domain
                /\ other.tab_urls = request.tab_urls
                /\ Cardinality(MatchedKeywords(other.keywords, declared))
                     < Cardinality(MatchedKeywords(request.keywords, declared)))
               => ~RatLt(selection.scores[i], total_score(registry, registry.templates[i].matching, other))

(***************************************************************************)
(* Placeholder share of a document: every string value found anywhere in   *)
(* it, each counted once.                                                  *)
(***************************************************************************)
RECURSIVE StringLeaves(_)
RECURSIVE StringLeavesOf(_)
StringLeavesOf(children) ==
    IF children = <<>> THEN <<>>
    ELSE StringLeaves(Head(children)) \o StringLeavesOf(Tail(children))

StringLeaves(obj) ==
    IF IsDict(obj) THEN StringLeavesOf(Values(obj))
    ELSE IF IsList(obj) THEN StringLeavesOf(obj.list)
    ELSE IF IsStr(obj) THEN <<obj.str>>
    ELSE <<>>

StringCount(obj) == Len(StringLeaves(obj))

PlaceholderCount(obj) ==
    Cardinality({i \in 1..Len(StringLeaves(obj)) : lower(strip(StringLeaves(obj)[i])) \in placeholder_values})

\* More than half of the string values are placeholders.
AboveThreshold(obj) == 2 * PlaceholderCount(obj) > StringCount(obj)

\* Fewer than half of the string values are placeholders, or there is no string.
FewerThanHalf(obj) == StringCount(obj) = 0 \/ 2 * PlaceholderCount(obj) < StringCount(obj)

\* C28: _validate_filled_data returns true exactly when the data is an object and
\* fewer than half of the string values found anywhere in it are placeholder strings
\* (or it holds no string); only the two counts matter, not order or nesting.
C28_ValidIffFewerThanHalfPlaceholders ==
    Filled => (validate_filled_data(filled) <=> (IsDict(filled) /\ FewerThanHalf(filled)))

\* The check of an attempt has just run on the document this attempt filled.
CheckedOwnDocument ==
    /\ pc \in {"END", "domain_logic"}
    /\ Len(verdicts) > 0
    /\ origin.data = Len(verdicts)
    /\ IsDict(state.template_data)

\* C26: a filled document whose share of placeholder values is above the threshold is a
\* validation failure: the check of its attempt does not pass, so the run never ends as
\* valid with it, and the graph goes back to domain_logic while attempts remain.
C26_PlaceholderDocumentFailsValidation ==
    (CheckedOwnDocument /\ AboveThreshold(state.template_data)) =>
        /\ ~state.is_valid_ui
        /\ state.validation_attempts < MaxAttempts => pc = "domain_logic"

\* path.endswith(suffix)
EndsWith(path, suffix) ==
    Len(path) >= Len(suffix) /\ SubSeq(path, Len(path) - Len(suffix) + 1, Len(path)) = suffix

\* The file set holds neither an index.html nor a JavaScript source file.
NoEssentialFiles(st) ==
    /\ ~no_files(st)
    /\ \A i \in 1..Len(st.sandbox_files.entries) :
        LET path == st.sandbox_files.entries[i].path
        IN /\ ~Contains(path, P_index_html)
           /\ ~EndsWith(path, S_dot_js)
           /\ ~EndsWith(path, S_dot_jsx)

\* C29: codesandbox_check_node rejects a file set that has neither an index.html nor a
\* .js or .jsx file, the injected src/data.json included or not: is_valid_ui becomes
\* false and error "Missing essential files in sandbox".
C29_MissingEssentialFilesRejected ==
    [][(pc = "codesandbox_check" /\ pc' # "codesandbox_check" /\ NoEssentialFiles(state)) =>
          /\ ~state'.is_valid_ui
          /\ state'.error = PyStr("Missing essential files in sandbox")]_vars

\* The messages codesandbox_check_node writes to error.
CheckMessages ==
    {"No sandbox files generated", "Missing essential files in sandbox",
     "CodeSandbox API error: failure", "CodeSandbox error: exception"}

\* C30: when the run has ended, error holds what the check of the last attempt wrote:
\* None exactly when that check uploaded the sandbox, otherwise one of the check's own
\* messages; an error of sandbox_logic_node or render_ui_node is never what is left,
\* and the response carries the same error.
C30_ErrorIsTheLastChecksOwn ==
    pc = "END" =>
        /\ state.error = Null <=> state.sandbox_id = PyStr("sandbox-id")
        /\ state.error # Null => state.error \in {PyStr(m) : m \in CheckMessages}
        /\ Responded => response.error = state.error

\* A run in which every attempt failed in sandbox_logic_node, ended with the check's error.
C30_Witness ==
    /\ pc = "END"
    /\ Responded
    /\ state.selected_template = Null
    /\ Len(verdicts) = MaxAttempts
    /\ state.error = PyStr("No sandbox files generated")

(***************************************************************************)
(* JsonSchema.validate.  A violation keeps the path, as the sequence of    *)
(* keys and indexes from the root, with what was expected and found.       *)
(***************************************************************************)
MaxItems == 2

\* type(instance).__name__
type_name(instance) ==
    IF IsDict(instance) THEN "dict"
    ELSE IF IsList(instance) THEN "list"
    ELSE IF IsStr(instance) THEN "str"
    ELSE IF IsBool(instance) THEN "bool"
    ELSE IF IsNum(instance) THEN "int"
    ELSE "NoneType"

\* f"{path}: expected {expected}, got {type(instance).__name__}"
Expected(path, expected, instance) == [path |-> path, expected |-> expected, got |-> type_name(instance)]

\* f"{path}: unexpected keys {extra}"
Unexpected(path, extra) == [path |-> path, unexpected |-> extra]

\* schema.get("type"), None for the empty schema
schema_type(sch) == IF "type" \in DOMAIN sch THEN sch.type ELSE "None"

\* schema.get("properties", {})
schema_properties(sch) == IF "properties" \in DOMAIN sch THEN sch.properties ELSE <<>>

\* schema.get("additionalProperties", False)
schema_additional(sch) == IF "additionalProperties" \in DOMAIN sch THEN sch.additionalProperties ELSE FALSE

\* schema.get("items", {})
schema_items(sch) == IF "items" \in DOMAIN sch THEN sch.items ELSE <<>>

RECURSIVE validate(_, _, _)
RECURSIVE validate_properties(_, _, _)
RECURSIVE validate_items(_, _, _, _)

\* The properties of the schema that the instance has, in the order of the instance.
validate_properties(pairs, properties, path) ==
    IF pairs = <<>> THEN <<>>
    ELSE (IF Head(pairs).key \in DOMAIN properties
          THEN validate(Head(pairs).val, properties[Head(pairs).key], Append(path, [key |-> Head(pairs).key]))
          ELSE <<>>)
         \o validate_properties(Tail(pairs), properties, path)

validate_items(items, item_schema, path, index) ==
    IF items = <<>> THEN <<>>
    ELSE validate(Head(items), item_schema, Append(path, [index |-> index]))
         \o validate_items(Tail(items), item_schema, path, index + 1)

validate(instance, sch, path) ==
    IF schema_type(sch) = "object" THEN
        IF ~IsDict(instance) THEN <<Expected(path, "object", instance)>>
        ELSE LET extra == Keys(instance) \ DOMAIN schema_properties(sch)
             IN (IF extra # {} /\ ~schema_additional(sch) THEN <<Unexpected(path, extra)>> ELSE <<>>)
                \o validate_properties(instance.dict, schema_properties(sch), path)
    ELSE IF schema_type(sch) = "array" THEN
        IF ~IsList(instance) THEN <<Expected(path, "array", instance)>>
        ELSE validate_items(instance.list, schema_items(sch), path, 0)
    ELSE IF schema_type(sch) = "string" THEN
        IF ~IsStr(instance) THEN <<Expected(path, "string", instance)>> ELSE <<>>
    ELSE IF schema_type(sch) = "number" THEN
        IF ~IsNum(instance) THEN <<Expected(path, "number", instance)>> ELSE <<>>
    ELSE IF schema_type(sch) = "boolean" THEN
        IF ~IsBool(instance) THEN <<Expected(path, "boolean", instance)>> ELSE <<>>
    ELSE IF schema_type(sch) = "null" THEN
        IF ~IsNull(instance) THEN <<Expected(path, "null", instance)>> ELSE <<>>
    ELSE <<>>

(***************************************************************************)
(* Harness of JsonSchema: a tree is drawn, its schema derived, and the     *)
(* tree validated against it.  The trees hold every kind of leaf, arrays   *)
(* of mixed content, and arrays nested up to and beyond the depth cap.     *)
(***************************************************************************)
SchemaLeaves == {Null, Num(1), Bool(TRUE), Str(S_x)}

SchemaLists == {List(items) : items \in SeqsUpTo(SchemaLeaves, MaxItems)}

SchemaDicts ==
    {Dict1("a", v) : v \in SchemaLeaves \cup SchemaLists}
    \cup {Dict2("a", v, "b", w) : v, w \in SchemaLeaves}

\* obj inside n arrays of one element
RECURSIVE Nest(_, _)
Nest(n, obj) == IF n = 0 THEN obj ELSE List(<<Nest(n - 1, obj)>>)

DeepTrees == {Nest(n, obj) : n \in {DepthCap, DepthCap + 1}, obj \in {Str(S_x), EmptyDict, Dict1("a", Null)}}

SchemaTrees == SchemaLeaves \cup SchemaLists \cup SchemaDicts \cup DeepTrees

InitSchema ==
    /\ schema_tree \in SchemaTrees
    /\ schema = NoResult
    /\ violations = NoResult
    /\ NotSchemaIdle

derive_schema ==
    /\ schema_tree # NoResult
    /\ schema = NoResult
    /\ schema' = [schema |-> derive(schema_tree)]
    /\ UNCHANGED <<schema_tree, violations, notSchemaVars>>

validate_tree ==
    /\ schema # NoResult
    /\ violations = NoResult
    /\ violations' = [errors |-> validate(schema_tree, schema.schema, <<>>)]
    /\ UNCHANGED <<schema_tree, schema, notSchemaVars>>

NextSchema == derive_schema \/ validate_tree

SpecSchema == InitSchema /\ [][NextSchema]_vars

\* C27: every tree validates against the schema derived from it: whatever the nesting
\* depth and the content of its arrays, JsonSchema.validate(T, JsonSchema.derive(T))
\* is the empty list.
C27_TreeValidatesAgainstOwnSchema ==
    violations # NoResult => violations.errors = <<>>

====
